---------------------------- MODULE Spec2Model ----------------------------
(***************************************************************************)
(* Paradigms and features of pynini.lib (paradigms.py, features.py).       *)
(*                                                                         *)
(* Labels are naturals: 0 is epsilon, 1..255 are bytes, and the generated  *)
(* symbols (the feature markers "[name=value]") are 256 and above.  A      *)
(* string is a sequence of labels.  An automaton is the set of its         *)
(* successful paths, a path being a sequence of arcs; an arc is a record   *)
(* [ilabel, olabel, weight], its destination being the next position of    *)
(* the path.                                                               *)
(***************************************************************************)
EXTENDS Naturals, Integers, Sequences, FiniteSets, TLC

\* ------------------------------------------------------------------ bounds
\* Longest slot list handed to the Paradigm constructor.
MaxSlots == 2
\* Number of later changes made to the parent paradigm's lists.
MaxMutations == 1
\* Number of concurrent readers of the views (specification SpecConc).
NumReaders == 2

\* --------------------------------------------------------------- constants
\* Label 0 denotes epsilon (byte.py: "[0] is missing, always epsilon").
Epsilon == 0
\* The default boundary symbol "+".
DefaultBoundary == 43
\* Labels below this are raw bytes, the others generated feature markers.
FirstMarkerLabel == 256
\* Semiring one of the tropical semiring: every arc built here has it.
WeightOne == 0

None == "None"

\* ---------------------------------------------------------------- strings
RECURSIVE SeqToSet(_)
SeqToSet(s) == IF s = <<>> THEN {} ELSE {Head(s)} \cup SeqToSet(Tail(s))

RECURSIVE SelectSeqP(_, _)
\* The subsequence of the labels of s that lie in the set keep.
SelectSeqP(s, keep) ==
  IF s = <<>> THEN <<>>
  ELSE (IF Head(s) \in keep THEN <<Head(s)>> ELSE <<>>)
         \o SelectSeqP(Tail(s), keep)

IsPrefix(p, s) == Len(p) <= Len(s) /\ SubSeq(s, 1, Len(p)) = p

\* The sequences over the set S of length lo..hi.
SeqsOf(S, lo, hi) == UNION {[1..n -> S] : n \in lo..hi}

\* -------------------------------------------------------------- features
\* features.Feature: a name, its values and an optional default.
Feature(name, values, default) ==
  [name |-> name,
   values |-> IF default # None /\ default \notin SeqToSet(values)
              THEN Append(values, default) ELSE values,
   default |-> default]

CaseFeature == Feature("case", <<"nom", "acc">>, None)
NumFeature == Feature("num", <<"sg", "pl">>, None)
AspectFeature == Feature("aspect", <<"root">>, None)

\* The feature names of the model in lexicographic order, the order of
\* sorted(features, key=operator.attrgetter("name")).
NameOrder == <<"aspect", "case", "num">>
NameRank(n) == CHOOSE i \in 1..Len(NameOrder) : NameOrder[i] = n

RECURSIVE InsertByName(_, _)
InsertByName(f, sorted) ==
  IF sorted = <<>> THEN <<f>>
  ELSE IF NameRank(f.name) <= NameRank(Head(sorted).name)
       THEN <<f>> \o sorted
       ELSE <<Head(sorted)>> \o InsertByName(f, Tail(sorted))

RECURSIVE SortByName(_)
\* A stable sort: insertion from the right keeps equal names in order.
SortByName(fs) ==
  IF fs = <<>> THEN <<>> ELSE InsertByName(Head(fs), SortByName(Tail(fs)))

\* A Category that keeps the caller's order.
CategoryUnsorted(fs) == [features |-> fs]

\* features.Category: the features sorted by name.
Category(fs) == [features |-> SortByName(fs)]

\* Feature.__eq__: the name and the set of values.
FeatureEq(f, g) ==
  f.name = g.name /\ SeqToSet(f.values) = SeqToSet(g.values)

\* Category.__eq__: list equality of the sorted features.
CategoryEq(c, d) ==
  /\ Len(c.features) = Len(d.features)
  /\ \A i \in 1..Len(c.features) : FeatureEq(c.features[i], d.features[i])

Noun == Category(<<NumFeature, CaseFeature>>)
Verb == Category(<<AspectFeature>>)

\* The generated-symbol table: the marker "[name=value]" has the label
\* FirstMarkerLabel - 1 + its index here.
SymbolTable ==
  << <<"case", "nom">>, <<"case", "acc">>, <<"num", "sg">>,
     <<"num", "pl">>, <<"aspect", "root">>, <<"num", "na">> >>

MarkerLabel(name, value) ==
  FirstMarkerLabel - 1
    + (CHOOSE i \in 1..Len(SymbolTable) : SymbolTable[i] = <<name, value>>)

\* gensym.find(label), split at "=".
MarkerOf(label) == SymbolTable[label - (FirstMarkerLabel - 1)]

\* Feature.acceptor: the markers of all the values of the feature.
FeatureAcceptor(f) ==
  {<<MarkerLabel(f.name, f.values[i])>> : i \in 1..Len(f.values)}

\* The labels of Category.feature_labels, the input side of the mapper.
FeatureLabels(cat) ==
  UNION {{MarkerLabel(cat.features[i].name, cat.features[i].values[j]) :
            j \in 1..Len(cat.features[i].values)} :
         i \in 1..Len(cat.features)}

\* Concatenation of two sets of strings.
ConcatSets(A, B) == {a \o b : a \in A, b \in B}

RECURSIVE ConcatStar(_)
\* features._concatstar: repeated concatenation of a non-empty list.
ConcatStar(acceptors) ==
  IF Len(acceptors) = 1 THEN Head(acceptors)
  ELSE ConcatSets(Head(acceptors), ConcatStar(Tail(acceptors)))

\* features.FeatureVector: a category and a partial assignment, a function
\* from some feature names to values.
FeatureVector(cat, values) == [category |-> cat, values |-> values]

\* FeatureVector.__eq__.
FVEq(v, w) == CategoryEq(v.category, w.category) /\ v.values = w.values

\* An acceptor of the assigned markers only.
FVAcceptorAssigned(v) ==
  ConcatStar([i \in 1..Len(v.category.features) |->
    LET f == v.category.features[i] IN
    IF f.name \in DOMAIN v.values
    THEN {<<MarkerLabel(f.name, v.values[f.name])>>}
    ELSE {<<>>}])

\* FeatureVector.acceptor: in canonical order the assigned marker of each
\* assigned feature and every marker of each unassigned one.
FVAcceptor(v) ==
  ConcatStar([i \in 1..Len(v.category.features) |->
    LET f == v.category.features[i] IN
    IF f.name \in DOMAIN v.values
    THEN {<<MarkerLabel(f.name, v.values[f.name])>>}
    ELSE FeatureAcceptor(f)])


\* FeatureVector.__init__ from "name=value" settings, here <<name, value>>
\* pairs: the dictionary keeps the last setting of a name.  The result is
\* [error, vector].
RECURSIVE SettingsToDict(_, _)
SettingsToDict(settings, dict) ==
  IF settings = <<>> THEN dict
  ELSE LET f == Head(settings)[1]
           v == Head(settings)[2]
       IN SettingsToDict(Tail(settings),
            [n \in (DOMAIN dict) \cup {f} |-> IF n = f THEN v ELSE dict[n]])

EmptyDict == [n \in {} |-> None]

NewFeatureVector(cat, settings) ==
  LET valid == {cat.features[i].name : i \in 1..Len(cat.features)}
      dict == SettingsToDict(settings, EmptyDict)
  IN IF settings = <<>>
     THEN [error |-> "No features_and_values provided", vector |-> None]
     ELSE IF \E i \in 1..Len(settings) : settings[i][1] \notin valid
     THEN [error |-> "Invalid name", vector |-> None]
     ELSE IF \E i \in 1..Len(cat.features) :
               /\ cat.features[i].name \in DOMAIN dict
               /\ dict[cat.features[i].name]
                    \notin SeqToSet(cat.features[i].values)
     THEN [error |-> "Invalid name", vector |-> None]
     ELSE [error |-> None, vector |-> FeatureVector(cat, dict)]

\* ------------------------------------------------------------ automata
Arc(ilabel, olabel, weight) ==
  [ilabel |-> ilabel, olabel |-> olabel, weight |-> weight]

\* The arcs c:c of an acceptor of the string s.
AccepArcs(s) == [i \in 1..Len(s) |-> Arc(s[i], s[i], WeightOne)]
\* pynutil.insert: the arcs epsilon:c of the cross product "" x s.
InsertArcs(s) == [i \in 1..Len(s) |-> Arc(Epsilon, s[i], WeightOne)]

RECURSIVE ILabels(_)
\* The input string of a path: its input labels without the epsilons.
ILabels(path) ==
  IF path = <<>> THEN <<>>
  ELSE (IF Head(path).ilabel = Epsilon THEN <<>> ELSE <<Head(path).ilabel>>)
         \o ILabels(Tail(path))

RECURSIVE OLabels(_)
\* The output string of a path.
OLabels(path) ==
  IF path = <<>> THEN <<>>
  ELSE (IF Head(path).olabel = Epsilon THEN <<>> ELSE <<Head(path).olabel>>)
         \o OLabels(Tail(path))

RECURSIVE RmEpsilon(_)
\* Removal of the arcs epsilon:epsilon.
RmEpsilon(path) ==
  IF path = <<>> THEN <<>>
  ELSE (IF Head(path).ilabel = Epsilon /\ Head(path).olabel = Epsilon
        THEN <<>> ELSE <<Head(path)>>) \o RmEpsilon(Tail(path))

\* Fst.invert: the labels of every arc exchanged.
Invert(fst) ==
  {[i \in 1..Len(p) |-> Arc(p[i].olabel, p[i].ilabel, p[i].weight)] :
     p \in fst}

\* pynini.project(fst, "output").
ProjectOutput(fst) ==
  {RmEpsilon([i \in 1..Len(p) |-> Arc(p[i].olabel, p[i].olabel, p[i].weight)]) :
     p \in fst}

\* A context-dependent rewrite rule cdrewrite(cross(phi, psi), "", right,
\* sigma_star), obligatory and left to right: phi a set of non-empty strings.
Rule(phi, psi, right) == [phi |-> phi, psi |-> psi, right |-> right]

RECURSIVE Covering(_, _)
\* The number of leading arcs of a path that carry its first n output labels.
Covering(path, n) ==
  IF n = 0 THEN 0
  ELSE 1 + Covering(Tail(path),
                    IF Head(path).olabel = Epsilon THEN n ELSE n - 1)

RECURSIVE Relabel(_, _)
\* The arcs of a matched segment with the output psi: label by label from the
\* left, epsilon once psi is used up, and new arcs epsilon:c for what is left.
Relabel(seg, psi) ==
  IF seg = <<>> THEN InsertArcs(psi)
  ELSE IF Head(seg).olabel = Epsilon
       THEN <<Head(seg)>> \o Relabel(Tail(seg), psi)
       ELSE IF psi = <<>>
            THEN <<Arc(Head(seg).ilabel, Epsilon, Head(seg).weight)>>
                   \o Relabel(Tail(seg), psi)
            ELSE <<Arc(Head(seg).ilabel, Head(psi), Head(seg).weight)>>
                   \o Relabel(Tail(seg), Tail(psi))

LongestOf(strings) ==
  CHOOSE x \in strings : \A y \in strings : Len(y) <= Len(x)

RECURSIVE RewriteArcs(_, _)
\* The path composed with the rule on its output side.
RewriteArcs(rule, path) ==
  IF path = <<>> THEN <<>>
  ELSE IF Head(path).olabel = Epsilon
       THEN <<Head(path)>> \o RewriteArcs(rule, Tail(path))
       ELSE LET out == OLabels(path)
                ms == {x \in rule.phi : IsPrefix(x \o rule.right, out)}
            IN IF ms = {}
               THEN <<Head(path)>> \o RewriteArcs(rule, Tail(path))
               ELSE LET n == Covering(path, Len(LongestOf(ms)))
                    IN Relabel(SubSeq(path, 1, n), rule.psi)
                         \o RewriteArcs(rule, SubSeq(path, n + 1, Len(path)))

\* fst @ rule.
ComposeRule(fst, rule) == {RmEpsilon(RewriteArcs(rule, p)) : p \in fst}

RECURSIVE ComposeRules(_, _)
\* fst @ rules[1] @ ... @ rules[n].
ComposeRules(fst, rules) ==
  IF rules = <<>> THEN fst
  ELSE ComposeRules(ComposeRule(fst, Head(rules)), Tail(rules))

\* The rule as a function of strings.
RewriteString(rule, s) == OLabels(RewriteArcs(rule, AccepArcs(s)))


\* ------------------------------------------------------------- paradigms
\* make_byte_star_except_boundary: any string of bytes without the boundary.
\* A stem form may further restrict the stems: final, when not empty, is the
\* set of the labels a stem may end in.
MakeByteStarExceptBoundary(boundary) == [except |-> boundary, final |-> {}]
StemsEndingIn(boundary, final) == [except |-> boundary, final |-> final]

StemFormAccepts(stem_form, s) ==
  /\ \A i \in 1..Len(s) :
       s[i] \in 1..(FirstMarkerLabel - 1) /\ s[i] # stem_form.except
  /\ stem_form.final # {} => (s # <<>> /\ s[Len(s)] \in stem_form.final)

\* A shape insert(pre) + stem_form + insert(post).
Shape(pre, stem_form, post) ==
  [pre |-> pre, stem_form |-> stem_form, post |-> post]
\* paradigms.prefix and paradigms.suffix.
Prefix(affix, stem_form) == Shape(affix, stem_form, <<>>)
Suffix(affix, stem_form) == Shape(<<>>, stem_form, affix)
\* A slot whose shape is the stem form alone.
Bare(stem_form) == Shape(<<>>, stem_form, <<>>)

\* The paths of (stem @ shape): none if the stem form rejects the stem.
ShapePaths(shape, s) ==
  IF StemFormAccepts(shape.stem_form, s)
  THEN {InsertArcs(shape.pre) \o AccepArcs(s) \o InsertArcs(shape.post)}
  ELSE {}

\* A slot whose markers are accepted, not inserted: they are on both sides.
SlotPathsAccept(shape, markers, s) ==
  {p \o AccepArcs(m) : p \in ShapePaths(shape, s), m \in markers}

\* A slot that has one marker sequence of its vector alone.
SlotPathsFirst(shape, markers, s) ==
  {p \o InsertArcs(CHOOSE m \in markers : TRUE) : p \in ShapePaths(shape, s)}

\* stem @ (shape + pynutil.insert(feature_vector.acceptor)).
SlotPaths(shape, markers, s) ==
  {p \o InsertArcs(m) : p \in ShapePaths(shape, s), m \in markers}

ParadigmSlot(shape, vector) == [shape |-> shape, vector |-> vector]

\* self._boundary_deleter and the rule deleting the feature labels.
BoundaryDeleter(boundary) == Rule({<<boundary>>}, <<>>, <<>>)
FeatureDeleter(cat) == Rule({<<m>> : m \in FeatureLabels(cat)}, <<>>, <<>>)
\* self._deleter: the feature labels deleted, then the boundary.
ComposeDeleter(fst, cat, boundary) ==
  ComposeRule(ComposeRule(fst, FeatureDeleter(cat)), BoundaryDeleter(boundary))

\* A child that takes no slot of its parent.
InheritNothing(slots, parent_slots) == slots

RECURSIVE InheritSlots(_, _)
\* self._slots.extend(parent_slot for parent_slot in parent.slots if
\* parent_slot[1] not in (slot[1] for slot in self._slots)): the generator
\* runs while the list grows, so each test sees the slots appended so far.
InheritSlots(slots, parent_slots) ==
  IF parent_slots = <<>> THEN slots
  ELSE InheritSlots(
         IF \E i \in 1..Len(slots) : FVEq(Head(parent_slots).vector,
                                         slots[i].vector)
         THEN slots ELSE Append(slots, Head(parent_slots)),
         Tail(parent_slots))

\* An inheritance that compares neither the categories nor the boundaries.
InheritUnchecked(category, boundary, rules, slots, par) ==
  IF ~par.exists
  THEN [error |-> None, rules |-> rules, slots |-> slots]
  ELSE [error |-> None,
        rules |-> IF rules = None THEN par.rules ELSE rules,
        slots |-> InheritSlots(slots, par.slots)]

\* Paradigm._inherit: [error, rules, slots], rules the reference to a list.
Inherit(category, boundary, rules, slots, par) ==
  IF ~par.exists
  THEN [error |-> None, rules |-> rules, slots |-> slots]
  ELSE IF ~CategoryEq(category, par.category)
  THEN [error |-> "Paradigm category != parent paradigm category",
        rules |-> rules, slots |-> slots]
  ELSE IF boundary # par.boundary
  THEN [error |-> "Paradigm boundary != parent paradigm boundary",
        rules |-> rules, slots |-> slots]
  ELSE [error |-> None,
        rules |-> IF rules = None THEN par.rules ELSE rules,
        slots |-> InheritSlots(slots, par.slots)]

\* The shape of the last slot whose vector is the lemma vector.
RECURSIVE LemmaShape(_, _, _)
LemmaShape(slots, lemma_feature_vector, found) ==
  IF slots = <<>> THEN found
  ELSE LemmaShape(Tail(slots), lemma_feature_vector,
         IF FVEq(Head(slots).vector, lemma_feature_vector)
         THEN [some |-> TRUE, shape |-> Head(slots).shape]
         ELSE found)

NoShape == [some |-> FALSE, shape |-> Bare(MakeByteStarExceptBoundary(DefaultBoundary))]

\* self._lemma as a transducer of any stem: its paths on the stem s.
LemmaPaths(lemma, s) ==
  ComposeDeleter(
    ComposeRules(SlotPaths(lemma.shape, lemma.markers, s), lemma.rules),
    lemma.category, lemma.boundary)

\* The rules a reference stands for: none for None.
RulesOf(ref, lists) == IF ref = None THEN <<>> ELSE lists[ref]

\* stems_to_forms with the rules taken in the opposite order.
StemsToFormsReversed(stems, slots, rules) ==
  ComposeRules(
    UNION {SlotPaths(slots[k].shape, FVAcceptor(slots[k].vector), stems[i]) :
             i \in 1..Len(stems), k \in 1..Len(slots)},
    [i \in 1..Len(rules) |-> rules[Len(rules) + 1 - i]])

\* self._stems_to_forms: the union of the stems composed with the shape,
\* then with each rule in order.
StemsToForms(stems, slots, rules) ==
  ComposeRules(
    UNION {SlotPaths(slots[k].shape, FVAcceptor(slots[k].vector), stems[i]) :
             i \in 1..Len(stems), k \in 1..Len(slots)},
    rules)


\* ----------------------------------------------------------------- state
VARIABLES
  parent,     \* the parent Paradigm: [exists, category, boundary, slots, rules]
  lists,      \* the rule list objects: "P" the parent's, "C" the child's own
  self,       \* the Paradigm under study, a record of its attributes
  fsts,       \* the Fst objects: fsts[attr][i] is the i-th object that was
              \* assigned to the attribute attr of self
  th,         \* per reader: its call stack, last return value and result
  made,       \* history: how many times the construction of each view began
  declared,   \* history: the constructor's arguments and the parent's lists
              \* as they were when the Paradigm was built
  mutations   \* how many times the parent's lists were changed afterwards

vars == <<parent, lists, self, fsts, th, made, declared, mutations>>

\* The identifier standing for Python's None where an Fst is expected.
NoObject == 0

Views == {"analyzer", "tagger", "lemmatizer", "inflector"}

\* The Paradigm object and the Fst objects, as one value.
Heap(slf, objs, mk) == [self |-> slf, fsts |-> objs, made |-> mk]

\* The object that the attribute attr of self refers to.
Obj(S, attr) == S.fsts[attr][S.self[attr]]

\* A reference to an object, as a reader holds it.
Ref(attr, id) == [attr |-> attr, id |-> id]
NoRef == Ref(None, NoObject)
Deref(S, ref) == S.fsts[ref.attr][ref.id]

\* A new Fst object holding value, assigned to the attribute attr of self.
AssignNew(S, attr, value) ==
  [S EXCEPT !.fsts = [S.fsts EXCEPT ![attr] = Append(@, value)],
            !.self = [S.self EXCEPT ![attr] = Len(S.fsts[attr]) + 1]]

\* The object that the attribute attr refers to is changed in place.
InPlace(S, attr, value) ==
  [S EXCEPT !.fsts = [S.fsts EXCEPT ![attr] = [@ EXCEPT ![S.self[attr]] = value]]]

Began(S, view) == [S EXCEPT !.made = [S.made EXCEPT ![view] = @ + 1]]

\* ------------------------------------------------------------ the views
\* Paradigm._make_analyzer, line by line.
AnalyzerProject(S) ==
  AssignNew(Began(S, "analyzer"), "_analyzer",
            ProjectOutput(Obj(S, "stems_to_forms")))
\* The analyzer composed with the feature deleter alone.
AnalyzerComposeFeatures(S) ==
  AssignNew(S, "_analyzer",
            ComposeRule(S.fsts._analyzer[S.self._analyzer],
                        FeatureDeleter(S.self.category)))
AnalyzerCompose(S) ==
  AssignNew(S, "_analyzer",
            ComposeDeleter(Obj(S, "_analyzer"), S.self.category,
                           S.self.boundary))
AnalyzerInvert(S) ==
  InPlace(S, "_analyzer", Invert(Obj(S, "_analyzer")))

\* A tagger that is the analyzer as it stands.
TaggerCopy(S) ==
  AssignNew(Began(S, "tagger"), "_tagger", S.fsts._analyzer[S.self._analyzer])

\* Paradigm._make_tagger.
TaggerCompose(S) ==
  AssignNew(Began(S, "tagger"), "_tagger",
            ComposeRule(Obj(S, "_analyzer"),
                        BoundaryDeleter(S.self.boundary)))

\* Paradigm._flip_lemmatizer_feature_labels: the arcs still to be flipped,
\* as <<path, position>>, are those whose output label is a feature label.
ToFlip(fst, cat) ==
  UNION {{<<p, i>> : i \in {j \in 1..Len(p) :
                              p[j].olabel \in FeatureLabels(cat)}} :
         p \in fst}

\* The arc the loop reaches next: the first of some path.
NextToFlip(fst, cat) ==
  LET todo == ToFlip(fst, cat)
      p == CHOOSE q \in {t[1] : t \in todo} : TRUE
      i == CHOOSE j \in 1..Len(p) :
             /\ <<p, j>> \in todo
             /\ \A k \in 1..(j - 1) : <<p, k>> \notin todo
  IN <<p, i>>

\* A relabelling that writes the marker on the input side and leaves it on
\* the output side.
FlipArcBoth(fst, p, i) ==
  (fst \ {p})
    \cup {[p EXCEPT ![i] = Arc(p[i].olabel, p[i].olabel, p[i].weight)]}

\* maiter.set_value(pynini.Arc(arc.olabel, arc.ilabel, arc.weight,
\* arc.nextstate)) on one arc.
FlipArc(fst, p, i) ==
  (fst \ {p})
    \cup {[p EXCEPT ![i] = Arc(p[i].olabel, p[i].ilabel, p[i].weight)]}

\* Paradigm._make_lemmatizer, line by line.
LemmatizerCopy(S) ==
  AssignNew(Began(S, "lemmatizer"), "_lemmatizer",
            Obj(S, "stems_to_forms"))
LemmatizerFlipOne(S) ==
  LET fst == Obj(S, "_lemmatizer")
      t == NextToFlip(fst, S.self.category)
  IN InPlace(S, "_lemmatizer", FlipArc(fst, t[1], t[2]))
LemmatizerDelete(S) ==
  AssignNew(S, "_lemmatizer",
            ComposeRule(Obj(S, "_lemmatizer"),
                        BoundaryDeleter(S.self.boundary)))
LemmatizerInvert(S) ==
  InPlace(S, "_lemmatizer", Invert(Obj(S, "_lemmatizer")))

\* The longest prefix of s without a feature label.
RECURSIVE StemPart(_, _)
StemPart(s, labels) ==
  IF s = <<>> \/ Head(s) \in labels THEN <<>>
  ELSE <<Head(s)>> \o StemPart(Tail(s), labels)

\* fst @ (self._lemma + self.category.feature_labels): the output of a path
\* is read as a stem, which the lemma transducer rewrites, followed by
\* feature labels alone, which pass through.
ComposeLemma(fst, lemma) ==
  LET labels == FeatureLabels(lemma.category)
      Stem(p) == StemPart(OLabels(p), labels)
      Rest(p) == SubSeq(OLabels(p), Len(Stem(p)) + 1, Len(OLabels(p)))
  IN UNION {
       IF \A i \in 1..Len(Rest(p)) : Rest(p)[i] \in labels
       THEN {[i \in 1..Len(ILabels(p)) |->
                Arc(ILabels(p)[i], Epsilon, WeightOne)]
               \o InsertArcs(OLabels(q) \o Rest(p)) :
             q \in LemmaPaths(lemma, Stem(p))}
       ELSE {} : p \in fst}

\* A lemmatizer left with the stems on its output side.
LemmatizerStem(S) ==
  AssignNew(S, "_lemmatizer", S.fsts._lemmatizer[S.self._lemmatizer])

LemmatizerLemma(S) ==
  AssignNew(S, "_lemmatizer",
            ComposeLemma(Obj(S, "_lemmatizer"), S.self.lemma))

\* An inflector that is a copy of the lemmatizer.
InflectorCopy(S) ==
  AssignNew(Began(S, "inflector"), "_inflector",
            S.fsts._lemmatizer[S.self._lemmatizer])

\* An inflector that is the cached lemmatizer, inverted in place.
InflectorInvertInPlace(S) ==
  LET S1 == InPlace(Began(S, "inflector"), "_lemmatizer",
                    Invert(Obj(S, "_lemmatizer")))
  IN AssignNew(S1, "_inflector", Obj(S1, "_lemmatizer"))

\* Paradigm.inflector: pynini.invert builds a new object.
InflectorInvert(S) ==
  AssignNew(Began(S, "inflector"), "_inflector",
            Invert(Obj(S, "_lemmatizer")))


\* ---------------------------------------------------------- the queries
\* rewrite.rewrite_lattice: the output strings of the paths of the rule that
\* read one of the input strings; a composition without a path raises.
RewriteLattice(strings, fst) ==
  {OLabels(p) : p \in {q \in fst : ILabels(q) \in strings}}

\* The "name=value" settings of the feature labels of a string, in order.
RECURSIVE Settings(_)
Settings(s) ==
  IF s = <<>> THEN <<>>
  ELSE (IF Head(s) < FirstMarkerLabel THEN <<>> ELSE <<MarkerOf(Head(s))>>)
         \o Settings(Tail(s))

\* The bytes of a string, in order: the labels below 256 that are not
\* epsilon ("if not label: continue").
RECURSIVE Bytes(_)
Bytes(s) ==
  IF s = <<>> THEN <<>>
  ELSE (IF Head(s) # Epsilon /\ Head(s) < FirstMarkerLabel
        THEN <<Head(s)>> ELSE <<>>)
         \o Bytes(Tail(s))

\* bytes.decode("utf8"): the number of continuation bytes that the lead byte
\* h announces, -1 if h cannot begin a character.
Utf8Lead(h) ==
  IF h < 128 THEN 0
  ELSE IF h \in 194..223 THEN 1
  ELSE IF h \in 224..239 THEN 2
  ELSE IF h \in 240..244 THEN 3
  ELSE -1

\* The second bytes allowed after the lead byte h: no overlong form, no
\* surrogate, nothing above U+10FFFF.
Utf8Second(h) ==
  (IF h = 224 THEN 160 ELSE IF h = 240 THEN 144 ELSE 128)
    .. (IF h = 237 THEN 159 ELSE IF h = 244 THEN 143 ELSE 191)

\* The code point of the character that b begins with, n continuation bytes.
Utf8CodePoint(b, n) ==
  IF n = 0 THEN b[1]
  ELSE IF n = 1 THEN (b[1] - 192) * 64 + (b[2] - 128)
  ELSE IF n = 2
  THEN (b[1] - 224) * 4096 + (b[2] - 128) * 64 + (b[3] - 128)
  ELSE (b[1] - 240) * 262144 + (b[2] - 128) * 4096 + (b[3] - 128) * 64
         + (b[4] - 128)

\* A decoding that takes every byte for a character.
Utf8Latin1(b) == [ok |-> TRUE, chars |-> b]

\* bytes.decode("utf8"): [ok, chars], chars the code points; not ok where
\* Python raises UnicodeDecodeError.
RECURSIVE Utf8Decode(_)
Utf8Decode(b) ==
  IF b = <<>> THEN [ok |-> TRUE, chars |-> <<>>]
  ELSE LET n == Utf8Lead(b[1])
           bad == [ok |-> FALSE, chars |-> <<>>]
       IN IF n < 0 \/ Len(b) < n + 1 THEN bad
          ELSE IF \E i \in 2..(n + 1) :
                    b[i] \notin (IF i = 2 THEN Utf8Second(b[1]) ELSE 128..191)
          THEN bad
          ELSE LET rest == Utf8Decode(SubSeq(b, n + 2, Len(b)))
               IN [ok |-> rest.ok,
                   chars |-> <<Utf8CodePoint(b, n)>> \o rest.chars]

\* piter.olabels(): the output labels of a path, the epsilons among them.
PathOLabels(p) == [i \in 1..Len(p) |-> p[i].olabel]

\* The body of the loop of Paradigm._parse_lattice on the output labels s of
\* one path: [error, pair], pair the <<word, FeatureVector>> it yields.
ParsePath(cat, s) ==
  LET word == Utf8Decode(Bytes(s))
      new == NewFeatureVector(cat, Settings(s))
  IN IF ~word.ok THEN [error |-> "UnicodeDecodeError", pair |-> <<>>]
     ELSE IF new.error # None THEN [error |-> "features.Error", pair |-> <<>>]
     ELSE [error |-> None, pair |-> <<word.chars, new.vector>>]

\* list(self._parse_lattice(lattice)) on the paths of a lattice: the
\* outcomes [raised, out], out the <<path, pair>> of every path.  It raises
\* at the first path whose word or FeatureVector cannot be built: which of
\* them is first depends on the order of the paths.
ParsePaths(cat, lattice) ==
  LET errors == {ParsePath(cat, PathOLabels(p)).error : p \in lattice}
                  \ {None}
  IN IF errors # {} THEN {[raised |-> e, out |-> {}] : e \in errors}
     ELSE {[raised |-> None,
            out |-> {<<p, ParsePath(cat, PathOLabels(p)).pair>> :
                       p \in lattice}]}

\* Paradigm._parse_lattice under list() on a rewrite lattice, given by its
\* output strings: [raised, out], out the pairs <<word, FeatureVector>>.
ParseLattice(cat, lattice) ==
  LET r == CHOOSE x \in ParsePaths(cat, {AccepArcs(s) : s \in lattice}) : TRUE
  IN [raised |-> r.raised, out |-> {x[2] : x \in r.out}]

\* A query that returns the empty list when the composition has no path.
DecodeEmpty(cat, word, fst) ==
  ParseLattice(cat, RewriteLattice({word}, fst))

\* analyze, tag and lemmatize on the view they were handed.
Decode(cat, word, fst) ==
  LET lattice == RewriteLattice({word}, fst)
  IN IF lattice = {} THEN [raised |-> "rewrite.Error", out |-> {}]
     ELSE ParseLattice(cat, lattice)

\* inflect on the inflector it was handed: rewrite.rewrites.
Inflect(lemma, featvec, fst) ==
  LET lattice == RewriteLattice({lemma \o m : m \in FVAcceptor(featvec)}, fst)
  IN IF lattice = {} THEN [raised |-> "rewrite.Error", out |-> {}]
     ELSE [raised |-> None, out |-> lattice]

\* --------------------------------------------------------- the readers
\* A reader is idle when its stack is empty; the head of the stack is the
\* place in the code it is at, the rest the places its callers return to.
Idle == [stack |-> <<>>, ret |-> NoRef, op |-> None, arg |-> <<>>,
         raised |-> None, out |-> {}]

Goto(S, T, label) ==
  [S |-> S, T |-> [T EXCEPT !.stack = <<label>> \o Tail(@)]]
\* Calls the property: the caller resumes at label.
Call(S, T, property, label) ==
  [S |-> S, T |-> [T EXCEPT !.stack = <<property, label>> \o Tail(@)]]
\* Returns the object the attribute attr of self refers to, or None.
Return(S, T, attr) ==
  [S |-> S, T |-> [T EXCEPT !.stack = Tail(@),
                            !.ret = IF attr = None THEN NoRef
                                    ELSE Ref(attr, S.self[attr])]]
Raise(S, T, error) ==
  [S |-> S, T |-> [T EXCEPT !.stack = <<>>, !.ret = NoRef,
                            !.raised = error]]
Finish(S, T, result) ==
  [S |-> S, T |-> [T EXCEPT !.stack = Tail(@), !.raised = result.raised,
                            !.out = result.out]]

\* An analyzer property that builds the view at every access.
AnalyzerPropertyUncached(S, T) ==
  IF S.self.stems_to_forms = NoObject THEN Return(S, T, None)
  ELSE Goto(S, T, "analyzer.project")

\* The property Paradigm.analyzer up to the call of _make_analyzer.
AnalyzerProperty(S, T) ==
  IF S.self.stems_to_forms = NoObject THEN Return(S, T, None)
  ELSE IF S.self._analyzer # NoObject THEN Return(S, T, "_analyzer")
  ELSE Goto(S, T, "analyzer.project")

\* Paradigm.tagger once self.analyzer has returned.
TaggerProperty(S, T) ==
  IF T.ret.id = NoObject THEN Return(S, T, None)
  ELSE IF S.self._tagger # NoObject THEN Return(S, T, "_tagger")
  ELSE Goto(S, T, "tagger.compose")

\* Paradigm.lemmatizer up to the call of _make_lemmatizer.
LemmatizerProperty(S, T) ==
  IF S.self.stems_to_forms = NoObject THEN Return(S, T, None)
  ELSE IF S.self._lemmatizer # NoObject THEN Return(S, T, "_lemmatizer")
  ELSE Goto(S, T, "lemmatizer.copy")

\* Paradigm.inflector once self.lemmatizer has returned.
InflectorProperty(S, T) ==
  IF T.ret.id = NoObject THEN Return(S, T, None)
  ELSE IF S.self._inflector # NoObject THEN Return(S, T, "_inflector")
  ELSE Goto(S, T, "inflector.invert")

\* One step of a reader with a non-empty stack.
Step(S, T) ==
  LET at == Head(T.stack) IN
  CASE at = "analyzer" -> AnalyzerProperty(S, T)
    [] at = "analyzer.project" ->
         Goto(AnalyzerProject(S), T, "analyzer.compose")
    [] at = "analyzer.compose" ->
         Goto(AnalyzerCompose(S), T, "analyzer.invert")
    [] at = "analyzer.invert" ->
         Goto(AnalyzerInvert(S), T, "analyzer.return")
    [] at = "analyzer.return" -> Return(S, T, "_analyzer")
    [] at = "tagger" -> Call(S, T, "analyzer", "tagger.check")
    [] at = "tagger.check" -> TaggerProperty(S, T)
    [] at = "tagger.compose" -> Goto(TaggerCompose(S), T, "tagger.return")
    [] at = "tagger.return" -> Return(S, T, "_tagger")
    [] at = "lemmatizer" -> LemmatizerProperty(S, T)
    [] at = "lemmatizer.copy" ->
         Goto(LemmatizerCopy(S), T, "lemmatizer.flip")
    [] at = "lemmatizer.flip" ->
         LET fst == Obj(S, "_lemmatizer") IN
         IF ToFlip(fst, S.self.category) = {}
         THEN Goto(S, T, "lemmatizer.delete")
         ELSE LET t == NextToFlip(fst, S.self.category) IN
              IF t[1][t[2]].ilabel # Epsilon
              THEN Raise(S, T, "AssertionError")
              ELSE Goto(LemmatizerFlipOne(S), T, "lemmatizer.flip")
    [] at = "lemmatizer.delete" ->
         Goto(LemmatizerDelete(S), T, "lemmatizer.invert")
    [] at = "lemmatizer.invert" ->
         Goto(LemmatizerInvert(S), T, "lemmatizer.lemma")
    [] at = "lemmatizer.lemma" ->
         Goto(LemmatizerLemma(S), T, "lemmatizer.return")
    [] at = "lemmatizer.return" -> Return(S, T, "_lemmatizer")
    [] at = "inflector" -> Call(S, T, "lemmatizer", "inflector.check")
    [] at = "inflector.check" -> InflectorProperty(S, T)
    [] at = "inflector.invert" ->
         Goto(InflectorInvert(S), T, "inflector.return")
    [] at = "inflector.return" -> Return(S, T, "_inflector")
    [] at = "analyze" -> Call(S, T, "analyzer", "decode")
    [] at = "tag" -> Call(S, T, "tagger", "decode")
    [] at = "lemmatize" -> Call(S, T, "lemmatizer", "decode")
    [] at = "inflect" -> Call(S, T, "inflector", "rewrites")
    [] at = "decode" ->
         IF T.ret.id = NoObject THEN Raise(S, T, "TypeError")
         ELSE Finish(S, T, Decode(S.self.category, T.arg, Deref(S, T.ret)))
    [] at = "rewrites" ->
         IF T.ret.id = NoObject THEN Raise(S, T, "TypeError")
         ELSE Finish(S, T, Inflect(T.arg[1], T.arg[2], Deref(S, T.ret)))

RECURSIVE Run(_)
\* A reader that runs alone until its call returns or raises.
Run(X) == IF X.T.stack = <<>> THEN X ELSE Run(Step(X.S, X.T))

\* The reader begins the call op(arg).
Begin(op, arg) == [Idle EXCEPT !.stack = <<op>>, !.op = op, !.arg = arg]


\* ------------------------------------------------------- the constructor
\* The attributes of a Paradigm that was not built.
NoParadigm(status, error) ==
  [status |-> status, error |-> error, category |-> Noun, slots |-> <<>>,
   boundary |-> DefaultBoundary, rules |-> None,
   lemma |-> [shape |-> NoShape.shape, markers |-> {}, rules |-> <<>>,
              category |-> Noun, boundary |-> DefaultBoundary],
   stems |-> <<>>, stems_to_forms |-> NoObject, _analyzer |-> NoObject,
   _tagger |-> NoObject, _lemmatizer |-> NoObject, _inflector |-> NoObject]

NoParent ==
  [exists |-> FALSE, category |-> Noun, boundary |-> DefaultBoundary,
   slots |-> <<>>, rules |-> None]

\* Paradigm.__init__: rules is [given, list], own the name of the list
\* object list(rules) makes, lsts the list objects.  The result is the new
\* Paradigm, its stems_to_forms and the list objects.
NewParadigm(category, slots, lemma_feature_vector, stems, rules, boundary, par, own, lsts) ==
  LET lsts1 == IF rules.given THEN [lsts EXCEPT ![own] = rules.list]
               ELSE lsts
      inh == Inherit(category, boundary, IF rules.given THEN own ELSE None,
                     slots, par)
      found == LemmaShape(inh.slots, lemma_feature_vector, NoShape)
      now == RulesOf(inh.rules, lsts1)
      Failed(error) ==
        [self |-> NoParadigm("error", error), stf |-> {}, lists |-> lsts]
  IN IF \E i \in 1..Len(slots) :
          ~CategoryEq(slots[i].vector.category, category)
     THEN Failed("Paradigm category != feature vector category")
     ELSE IF inh.error # None THEN Failed(inh.error)
     ELSE IF ~found.some THEN Failed("Lemma form not found in slots")
     ELSE [self |->
             [status |-> "built", error |-> None, category |-> category,
              slots |-> inh.slots, boundary |-> boundary,
              rules |-> inh.rules,
              lemma |-> [shape |-> found.shape,
                         markers |-> FVAcceptor(lemma_feature_vector),
                         rules |-> now, category |-> category,
                         boundary |-> boundary],
              stems |-> stems, stems_to_forms |-> 1,
              _analyzer |-> NoObject, _tagger |-> NoObject,
              _lemmatizer |-> NoObject, _inflector |-> NoObject],
           stf |-> StemsToForms(stems, inh.slots, now),
           lists |-> lsts1]

\* ---------------------------------------------------------------- inputs
\* Bytes: "a" 97, "e" 101, "r" 114, "s" 115, "+" 43.
AnyStem == MakeByteStarExceptBoundary(DefaultBoundary)

NomSg == FeatureVector(Noun, [n \in {"case", "num"} |->
                                IF n = "case" THEN "nom" ELSE "sg"])
AccSg == FeatureVector(Noun, [n \in {"case", "num"} |->
                                IF n = "case" THEN "acc" ELSE "sg"])
\* A partial vector: the case is left open.
AnyPl == FeatureVector(Noun, [n \in {"num"} |-> "pl"])

\* The bare stem as nominative singular.
SlotBare == ParadigmSlot(Bare(AnyStem), NomSg)
\* "+e" as accusative singular.
SlotE == ParadigmSlot(Suffix(<<43, 101>>, AnyStem), AccSg)
\* "+s" as nominative singular, for the stems in "s" alone.
SlotS == ParadigmSlot(Suffix(<<43, 115>>, StemsEndingIn(DefaultBoundary, {115})),
                      NomSg)
\* "+e" as plural of any case.
SlotPl == ParadigmSlot(Suffix(<<43, 101>>, AnyStem), AnyPl)
\* "+a" as a second accusative singular.
SlotA == ParadigmSlot(Suffix(<<43, 97>>, AnyStem), AccSg)

SlotPool == {SlotBare, SlotS, SlotPl}
SlotLists == SeqsOf(SlotPool, 1, MaxSlots)

\* The stems "as" and "ar".
StemChoices == {<< <<97, 115>> >>, << <<97, 115>>, <<97, 114>> >>}

\* s -> r before the boundary, and s+s -> s+.
Rhotacism == Rule({<<115>>}, <<114>>, <<43>>)
Degemination == Rule({<<115, 43, 115>>}, <<115, 43>>, <<>>)

NoRules == [given |-> FALSE, list |-> <<>>]
Rules(list) == [given |-> TRUE, list |-> list]
RuleChoices ==
  {NoRules, Rules(<<Rhotacism, Degemination>>),
   Rules(<<Degemination, Rhotacism>>)}

NoLists == [P |-> <<>>, C |-> <<>>]

\* The parent paradigms: none, one with rules of its own, and one without
\* rules that has two slots for the accusative singular.
ParentArgs ==
  {[slots |-> <<SlotBare, SlotE>>, rules |-> Rules(<<Rhotacism>>)],
   [slots |-> <<SlotE, SlotA, SlotBare>>, rules |-> NoRules]}

BuiltParent(a) ==
  NewParadigm(Noun, a.slots, NomSg, << <<97, 115>> >>, a.rules,
              DefaultBoundary, NoParent, "P", NoLists)

AsParent(p) ==
  [exists |-> TRUE, category |-> p.category, boundary |-> p.boundary,
   slots |-> p.slots, rules |-> p.rules]

NoDeclared ==
  [slots |-> <<>>, rules |-> <<>>, stems |-> <<>>, parent_slots |-> <<>>,
   lemma_feature_vector |-> NomSg]

Readers == DOMAIN th

\* No Fst object was made yet.
NoFsts ==
  [stems_to_forms |-> <<>>, _analyzer |-> <<>>, _tagger |-> <<>>,
   _lemmatizer |-> <<>>, _inflector |-> <<>>]

InitReaders(n) ==
  /\ th = [t \in 1..n |-> Idle]
  /\ made = [v \in Views |-> 0]
  /\ mutations = 0

\* Before the Paradigm under study is built, without a parent.
Init ==
  /\ parent = NoParent
  /\ lists = NoLists
  /\ self = NoParadigm("unbuilt", None)
  /\ fsts = NoFsts
  /\ declared = NoDeclared
  /\ InitReaders(1)

\* The outcomes of the constructor.  pynini.union(*self._stems) is handed no
\* operand when there is no stem: it then either raises (ValueError) or
\* returns the automaton without a path, and both outcomes are kept.
Constructed(category, slots, lemma_feature_vector, stems, rules, boundary, par, own, lsts) ==
  LET new == NewParadigm(category, slots, lemma_feature_vector, stems, rules,
                         boundary, par, own, lsts)
  IN IF new.self.status = "built" /\ stems = <<>>
     THEN {new, [self |-> NoParadigm("error", "ValueError"), stf |-> {},
                 lists |-> lsts]}
     ELSE {new}

\* Paradigm(category=Noun, slots, lemma_feature_vector, stems, rules,
\* parent_paradigm=parent).
ConstructLemma(slot_lists, lemmas, stem_choices, rule_choices) ==
  /\ self.status = "unbuilt"
  /\ \E slots \in slot_lists, lemma_feature_vector \in lemmas,
        stems \in stem_choices, rules \in rule_choices :
       \E new \in Constructed(Noun, slots, lemma_feature_vector, stems, rules,
                              DefaultBoundary, parent, "C", lists) :
          /\ self' = new.self
          /\ lists' = new.lists
          /\ fsts' = IF new.self.status = "built"
                     THEN [NoFsts EXCEPT !.stems_to_forms = <<new.stf>>]
                     ELSE NoFsts
          /\ declared' = [slots |-> slots,
                          rules |-> IF new.self.status = "built"
                                    THEN new.self.lemma.rules ELSE <<>>,
                          stems |-> stems, parent_slots |-> parent.slots,
                          lemma_feature_vector |-> lemma_feature_vector]
  /\ UNCHANGED <<parent, th, made, mutations>>

\* The same with the lemma vector NomSg.
ConstructFrom(slot_lists, stem_choices, rule_choices) ==
  ConstructLemma(slot_lists, {NomSg}, stem_choices, rule_choices)

Construct == ConstructFrom(SlotLists, StemChoices, RuleChoices)


\* The words looked up: "are" and "ar".
QueryWords == {<<97, 114, 101>>, <<97, 114>>}
\* The arguments of inflect: a lemma and a vector.
InflectArgs == {<< <<97, 115>>, AccSg >>, << <<97, 114>>, AnyPl >>}

Quiet == \A t \in Readers : th[t].stack = <<>>

\* The reader t makes the call op(arg) and runs it to its end alone.
RunCall(t, op, arg) ==
  /\ self.status = "built"
  /\ Quiet
  /\ \E r \in {Run([S |-> Heap(self, fsts, made), T |-> Begin(op, arg)])} :
        /\ self' = r.S.self
        /\ fsts' = r.S.fsts
        /\ made' = r.S.made
        /\ th' = [th EXCEPT ![t] = r.T]
  /\ UNCHANGED <<parent, lists, declared, mutations>>

\* paradigm.analyzer, .tagger, .lemmatizer or .inflector is read.
Access(t) == \E view \in Views : RunCall(t, view, <<>>)
\* paradigm.analyze(word), .tag(word), .lemmatize(word).
Analyze(t) == \E word \in QueryWords : RunCall(t, "analyze", word)
Tag(t) == \E word \in QueryWords : RunCall(t, "tag", word)
Lemmatize(t) == \E word \in QueryWords : RunCall(t, "lemmatize", word)
\* paradigm.inflect(lemma, featvec).
DoInflect(t) == \E arg \in InflectArgs : RunCall(t, "inflect", arg)

Next ==
  \/ Construct
  \/ \E t \in Readers : Access(t)
  \/ \E t \in Readers : Analyze(t)
  \/ \E t \in Readers : Tag(t)
  \/ \E t \in Readers : Lemmatize(t)
  \/ \E t \in Readers : DoInflect(t)

Spec == Init /\ [][Next]_vars

\* ------------------------------------------------------------ inheritance
\* Before a child Paradigm is built: its parent was built earlier.
InitInherit ==
  /\ \E a \in ParentArgs :
       /\ parent = AsParent(BuiltParent(a).self)
       /\ lists = BuiltParent(a).lists
  /\ self = NoParadigm("unbuilt", None)
  /\ fsts = NoFsts
  /\ declared = NoDeclared
  /\ InitReaders(1)

\* The child has the stem "as", and no rules or rhotacism of its own.
ConstructChild ==
  ConstructFrom(SlotLists, {<< <<97, 115>> >>},
                {NoRules, Rules(<<Rhotacism>>)})

\* A client changes the list that parent.slots hands out.
MutateParentSlots(slots) ==
  /\ parent.exists
  /\ self.status = "built"
  /\ mutations < MaxMutations
  /\ parent' = [parent EXCEPT !.slots = slots]
  /\ mutations' = mutations + 1
  /\ UNCHANGED <<lists, self, fsts, th, made, declared>>

\* parent.slots.append(slot), parent.slots.pop(), parent.slots[0] = slot.
ParentSlotsAppend == MutateParentSlots(Append(parent.slots, SlotA))
ParentSlotsRemove ==
  /\ parent.slots # <<>>
  /\ MutateParentSlots(SubSeq(parent.slots, 1, Len(parent.slots) - 1))
ParentSlotsReplace ==
  /\ parent.slots # <<>>
  /\ MutateParentSlots([parent.slots EXCEPT ![1] = SlotA])

\* A client changes the list that parent.rules hands out.
MutateParentRules(rules) ==
  /\ parent.exists
  /\ parent.rules # None
  /\ self.status = "built"
  /\ mutations < MaxMutations
  /\ lists' = [lists EXCEPT ![parent.rules] = rules]
  /\ mutations' = mutations + 1
  /\ UNCHANGED <<parent, self, fsts, th, made, declared>>

\* parent.rules.append(rule), parent.rules.pop(), parent.rules[0] = rule.
ParentRulesAppend ==
  MutateParentRules(Append(RulesOf(parent.rules, lists), Degemination))
ParentRulesRemove ==
  /\ RulesOf(parent.rules, lists) # <<>>
  /\ MutateParentRules(SubSeq(RulesOf(parent.rules, lists), 1,
                              Len(RulesOf(parent.rules, lists)) - 1))
ParentRulesReplace ==
  /\ RulesOf(parent.rules, lists) # <<>>
  /\ MutateParentRules([RulesOf(parent.rules, lists) EXCEPT ![1] = Degemination])

NextInherit ==
  \/ ConstructChild
  \/ ParentSlotsAppend
  \/ ParentSlotsRemove
  \/ ParentSlotsReplace
  \/ ParentRulesAppend
  \/ ParentRulesRemove
  \/ ParentRulesReplace
  \/ \E t \in Readers : Access(t)

SpecInherit == InitInherit /\ [][NextInherit]_vars

\* ----------------------------------------------------- construction errors
\* The vectors "case=acc, num=sg" of Noun and "aspect=root" of Verb are
\* lemma vectors too.
Root == FeatureVector(Verb, [n \in {"aspect"} |-> "root"])

\* The boundary symbol "-".
Dash == 45

\* The parents a Paradigm is built under: none; a noun paradigm with the
\* nominative singular and a rule; a noun paradigm with the accusative
\* singular alone, which is its lemma; a verb paradigm; and a noun paradigm
\* whose boundary is "-".
BuildParents ==
  {[self |-> NoParent, lists |-> NoLists],
   [self |-> AsParent(NewParadigm(Noun, <<SlotBare, SlotE>>, NomSg,
                        << <<97, 115>> >>, Rules(<<Rhotacism>>),
                        DefaultBoundary, NoParent, "P", NoLists).self),
    lists |-> [NoLists EXCEPT !.P = <<Rhotacism>>]],
   [self |-> AsParent(NewParadigm(Noun, <<SlotE>>, AccSg, << <<97, 115>> >>,
                        NoRules, DefaultBoundary, NoParent, "P",
                        NoLists).self),
    lists |-> NoLists],
   [self |-> AsParent(NewParadigm(Verb, <<ParadigmSlot(Bare(AnyStem), Root)>>,
                        Root, << <<97, 115>> >>, Rules(<<Rhotacism>>),
                        DefaultBoundary, NoParent, "P", NoLists).self),
    lists |-> [NoLists EXCEPT !.P = <<Rhotacism>>]],
   [self |-> AsParent(NewParadigm(Noun,
                        <<ParadigmSlot(Bare(MakeByteStarExceptBoundary(Dash)),
                                       NomSg),
                          ParadigmSlot(Suffix(<<Dash, 101>>,
                                         MakeByteStarExceptBoundary(Dash)),
                                       AccSg)>>,
                        NomSg, << <<97, 115>> >>, Rules(<<Rhotacism>>), Dash,
                        NoParent, "P", NoLists).self),
    lists |-> [NoLists EXCEPT !.P = <<Rhotacism>>]]}

InitBuild ==
  /\ \E p \in BuildParents : parent = p.self /\ lists = p.lists
  /\ self = NoParadigm("unbuilt", None)
  /\ fsts = NoFsts
  /\ declared = NoDeclared
  /\ InitReaders(1)

\* The Paradigm is built with either lemma vector, with the stem "as" or
\* without a stem, and with no rules or rhotacism of its own.
ConstructAny ==
  ConstructLemma(SlotLists, {NomSg, AccSg}, {<<>>, << <<97, 115>> >>},
                 {NoRules, Rules(<<Rhotacism>>)})

NextBuild ==
  \/ ConstructAny
  \/ \E t \in Readers : Access(t)

SpecBuild == InitBuild /\ [][NextBuild]_vars

\* ------------------------------------------------------------ concurrency
\* The Paradigm the readers share: the bare stem "as" as nominative
\* singular, without rules.
SharedParadigm ==
  NewParadigm(Noun, <<SlotBare>>, NomSg, << <<97, 115>> >>, NoRules,
              DefaultBoundary, NoParent, "C", NoLists)

InitConc ==
  /\ parent = NoParent
  /\ lists = NoLists
  /\ self = SharedParadigm.self
  /\ fsts = [NoFsts EXCEPT !.stems_to_forms = <<SharedParadigm.stf>>]
  /\ declared = [NoDeclared EXCEPT !.slots = <<SlotBare>>,
                                   !.stems = << <<97, 115>> >>]
  /\ InitReaders(NumReaders)

\* The reader t, which has read nothing yet, begins to read one of the four
\* properties: every reader reads once.
CallView(t) ==
  /\ th[t].op = None
  /\ \E view \in Views : th' = [th EXCEPT ![t] = Begin(view, <<>>)]
  /\ UNCHANGED <<parent, lists, self, fsts, made, declared, mutations>>

\* The reader t runs the next line of the code it is in.
StepReader(t) ==
  /\ th[t].stack # <<>>
  /\ \E r \in {Step(Heap(self, fsts, made), th[t])} :
       /\ self' = r.S.self
       /\ fsts' = r.S.fsts
       /\ made' = r.S.made
       /\ th' = [th EXCEPT ![t] = r.T]
  /\ UNCHANGED <<parent, lists, declared, mutations>>

NextConc ==
  \/ \E t \in Readers : CallView(t)
  \/ \E t \in Readers : StepReader(t)

SpecConc == InitConc /\ [][NextConc]_vars


\* ------------------------------------------------------------ unification
\* Longest list of settings handed to the FeatureVector constructor.
MaxSettings == 2

RECURSIVE ItemsFrom(_, _)
\* dict.items() as settings, the names taken in the order of names.
ItemsFrom(names, dict) ==
  IF names = <<>> THEN <<>>
  ELSE (IF Head(names) \in DOMAIN dict
        THEN << <<Head(names), dict[Head(names)]>> >> ELSE <<>>)
         \o ItemsFrom(Tail(names), dict)

Items(dict) == ItemsFrom(NameOrder, dict)

\* What a call returns: the exception it raised, or the set of the value it
\* returned, empty if it returned None.
Returned(value) == [raised |-> None, out |-> {value}]
ReturnedNone == [raised |-> None, out |-> {}]
Raised(error) == [raised |-> error, out |-> {}]

\* A unify that does not compare the categories.
UnifyAnyCategory(a, b) ==
  IF \E f \in (DOMAIN a.values) \cap (DOMAIN b.values) :
       a.values[f] # b.values[f]
  THEN ReturnedNone
  ELSE LET new == NewFeatureVector(a.category,
                                   Items(a.values) \o Items(b.values))
       IN IF new.error # None THEN Raised(new.error)
          ELSE Returned(new.vector)

\* A unify that returns the settings of its left operand alone.
UnifyLeft(a, b) ==
  IF ~CategoryEq(a.category, b.category) THEN ReturnedNone
  ELSE IF \E f \in (DOMAIN a.values) \cap (DOMAIN b.values) :
            a.values[f] # b.values[f]
  THEN ReturnedNone
  ELSE Returned(a)

\* A unify in which the settings of the left operand win over those of the
\* right one.
UnifyLeftWins(a, b) ==
  IF ~CategoryEq(a.category, b.category) THEN ReturnedNone
  ELSE LET new == NewFeatureVector(a.category,
                                   Items(b.values) \o Items(a.values))
       IN IF new.error # None THEN Raised(new.error)
          ELSE Returned(new.vector)

\* A unify that returns the settings of its right operand alone.
UnifyRight(a, b) ==
  IF ~CategoryEq(a.category, b.category) THEN ReturnedNone
  ELSE IF \E f \in (DOMAIN a.values) \cap (DOMAIN b.values) :
            a.values[f] # b.values[f]
  THEN ReturnedNone
  ELSE Returned(FeatureVector(a.category, b.values))

\* FeatureVector.unify.  The settings collected in the set values are
\* handed to the constructor in the order the set yields them; no name has
\* two values there, so the order does not show in the result.
Unify(a, b) ==
  IF ~CategoryEq(a.category, b.category) THEN ReturnedNone
  ELSE IF \E f \in (DOMAIN a.values) \cap (DOMAIN b.values) :
            a.values[f] # b.values[f]
  THEN ReturnedNone
  ELSE LET new == NewFeatureVector(a.category,
                                   Items(a.values) \o Items(b.values))
       IN IF new.error # None THEN Raised(new.error)
          ELSE Returned(new.vector)

\* A second noun category, equal to Noun: the values of its case feature
\* were given in the other order.
Noun2 == Category(<<Feature("case", <<"acc", "nom">>, None), NumFeature>>)

Categories == {Noun, Noun2, Verb}

\* The settings handed to the constructor: legal ones, a value that is not
\* a value of its feature ("case=sg"), and a name of no feature ("gender").
SettingPool ==
  {<<"case", "nom">>, <<"case", "acc">>, <<"num", "sg">>, <<"num", "pl">>,
   <<"case", "sg">>, <<"gender", "fem">>, <<"aspect", "root">>}

SettingLists == SeqsOf(SettingPool, 0, MaxSettings)

\* The FeatureVectors the constructor builds from these.
Vectors ==
  {NewFeatureVector(c, s).vector :
     <<c, s>> \in {x \in Categories \X SettingLists :
                     NewFeatureVector(x[1], x[2]).error = None}}

\* The reader t, which has called nothing yet, has made a call that returned
\* or raised.
Called(t, op, arg, result) ==
  /\ th[t].op = None
  /\ th' = [th EXCEPT ![t] = [Idle EXCEPT !.op = op, !.arg = arg,
                                          !.raised = result.raised,
                                          !.out = result.out]]
  /\ UNCHANGED <<parent, lists, self, fsts, made, declared, mutations>>

\* --------------------------------------------- features and categories
\* Most features handed to the Category constructor.
MaxFeatures == 3

\* Feature(name, *values, default=default): line 62 builds the Error
\* without raising it, so the constructor goes on.  With no value and no
\* default pynini.union is handed no operand: it then either raises
\* (ValueError) or returns the automaton without a path, and both outcomes
\* are kept.
NewFeature(name, values, default) ==
  IF Feature(name, values, default).values = <<>>
  THEN {Raised("ValueError"), Returned(Feature(name, values, default))}
  ELSE {Returned(Feature(name, values, default))}

\* A Category constructor that builds a Category of no feature.
NewCategoryUnchecked(fs) == Returned(Category(fs))

\* Category(*features): line 160 builds the Error without raising it; with
\* no feature the unpacking "(car, *cdr) = args" of _concatstar raises
\* ValueError.
NewCategory(fs) ==
  IF fs = <<>> THEN Raised("ValueError") ELSE Returned(Category(fs))

\* Category.acceptor: the concatenation of the features' acceptors.
CategoryAcceptor(cat) ==
  ConcatStar([i \in 1..Len(cat.features) |->
                FeatureAcceptor(cat.features[i])])

\* Features with a default: "nom", one of the values, and "na", which the
\* constructor adds to the values.
CaseDefault == Feature("case", <<"nom", "acc">>, "nom")
NumDefault == Feature("num", <<"sg", "pl">>, "na")

FeaturePool ==
  {CaseFeature, NumFeature, AspectFeature, CaseDefault, NumDefault}

\* The lists of features of different names.
FeatureLists ==
  {fs \in SeqsOf(FeaturePool, 0, MaxFeatures) :
     \A i, j \in 1..Len(fs) : fs[i].name = fs[j].name => i = j}

\* The marker of the default of a feature that has one.
DefaultAcceptor(f) == {<<MarkerLabel(f.name, f.default)>>}

\* A feature filler that inserts any marker of a missing feature, whether
\* the feature has a default or not.
FeatureFillerAll(cat) ==
  ConcatStar([i \in 1..Len(cat.features) |->
    LET f == cat.features[i] IN
    {InsertArcs(m) : m \in FeatureAcceptor(f)}
      \cup {AccepArcs(m) : m \in FeatureAcceptor(f)}])

\* Category.feature_filler: for each feature in order, either the insertion
\* of its default marker (of any of its markers, if it has no default) or
\* one of its markers as it is.
FeatureFiller(cat) ==
  ConcatStar([i \in 1..Len(cat.features) |->
    LET f == cat.features[i] IN
    {InsertArcs(m) : m \in IF f.default # None THEN DefaultAcceptor(f)
                            ELSE FeatureAcceptor(f)}
      \cup {AccepArcs(m) : m \in FeatureAcceptor(f)}])

\* The labels of the feature markers.
AllMarkers ==
  {FirstMarkerLabel - 1 + i : i \in 1..Len(SymbolTable)}

\* The marker sequences composed with the filler.
FillInputs == SeqsOf(AllMarkers, 0, MaxSettings)

\* input @ category.feature_filler: the output strings.
DoFill(t) ==
  /\ th[t].op = None
  /\ \E fs \in FeatureLists \ {<<>>}, input \in FillInputs :
         Called(t, "fill", <<Category(fs), input>>,
                [raised |-> None,
                 out |-> RewriteLattice({input}, FeatureFiller(Category(fs)))])

\* features.Feature(name, *values, default=default).
DoFeature(t) ==
  /\ th[t].op = None
  /\ \E values \in {<<>>, <<"sg">>, <<"sg", "pl">>}, default \in {None, "sg", "na"} :
         \E new \in NewFeature("num", values, default) :
           Called(t, "Feature", <<"num", values, default>>, new)

\* features.Category(*features).
DoCategory(t) ==
  /\ th[t].op = None
  /\ \E fs \in FeatureLists : Called(t, "Category", fs, NewCategory(fs))

InitFeatures ==
  /\ parent = NoParent
  /\ lists = NoLists
  /\ self = NoParadigm("unbuilt", None)
  /\ fsts = NoFsts
  /\ declared = NoDeclared
  /\ InitReaders(1)

\* features.FeatureVector(category, *features_and_values).
DoFeatureVector(t) ==
  /\ th[t].op = None
  /\ \E c \in Categories, s \in SettingLists :
         \E new \in {NewFeatureVector(c, s)} :
           Called(t, "FeatureVector", <<c, s>>,
                  IF new.error # None THEN Raised(new.error)
                  ELSE Returned(new.vector))

\* a.unify(b).
DoUnify(t) ==
  /\ th[t].op = None
  /\ \E a \in Vectors, b \in Vectors : Called(t, "unify", <<a, b>>, Unify(a, b))

\* v.acceptor: the strings of the acceptor built by the constructor.
DoAcceptor(t) ==
  /\ th[t].op = None
  /\ \E v \in Vectors :
         Called(t, "acceptor", <<v>>, [raised |-> None, out |-> FVAcceptor(v)])

\* Most paths of a lattice handed to _parse_lattice.
MaxPaths == 2

\* The output labels of the paths: "a" with the markers of a noun, the
\* same with epsilons, with the marker of the number alone, with the markers
\* first; "\u0101" (196 129) and "\u20ac" (226 130 172) with markers; "a"
\* without a marker, with the marker of a verb; a cut character (196), an
\* overlong form (192 128) and a lone continuation byte (129).
LabelPool ==
  {<<97, 256, 258>>, <<0, 97, 0, 257, 259>>, <<97, 258>>, <<256, 97, 259>>,
   <<196, 129, 256, 258>>, <<226, 130, 172, 257, 258>>,
   <<97>>, <<97, 260>>,
   <<196, 256, 258>>, <<192, 128, 256, 258>>, <<129, 256, 258>>}

\* The paths: each string as the output of a path with the string, and of a
\* path with nothing, on its input side.
PathPool ==
  {AccepArcs(s) : s \in LabelPool} \cup {InsertArcs(s) : s \in LabelPool}

\* The lattices of one path up to MaxPaths paths.
Lattices == {SeqToSet(q) : q \in SeqsOf(PathPool, 1, MaxPaths)}

\* list(paradigm._parse_lattice(lattice)) in the category Noun.
DoParse(t) ==
  /\ th[t].op = None
  /\ \E lattice \in Lattices :
         \E result \in ParsePaths(Noun, lattice) :
           Called(t, "_parse_lattice", <<Noun, lattice>>, result)

NextFeatures ==
  \/ \E t \in Readers : DoFeatureVector(t)
  \/ \E t \in Readers : DoUnify(t)
  \/ \E t \in Readers : DoFeature(t)
  \/ \E t \in Readers : DoCategory(t)
  \/ \E t \in Readers : DoFill(t)
  \/ \E t \in Readers : DoAcceptor(t)
  \/ \E t \in Readers : DoParse(t)

SpecFeatures == InitFeatures /\ [][NextFeatures]_vars

\* ------------------------------------------------- what the views denote
\* The definitions below state what the claims expect, on strings, without
\* the automata.

\* The marker sequences of a vector: one marker per feature of the category
\* in canonical order, the assigned one where the vector assigns the feature
\* and any legal one where it does not.
VectorMarkers(v) ==
  LET fs == v.category.features IN
  {m \in [1..Len(fs) -> FeatureLabels(v.category)] :
     \A i \in 1..Len(fs) :
       /\ MarkerOf(m[i])[1] = fs[i].name
       /\ fs[i].name \in DOMAIN v.values
            => MarkerOf(m[i])[2] = v.values[fs[i].name]}

\* The shape applied to the stem s.
Affixed(shape, s) ==
  IF StemFormAccepts(shape.stem_form, s)
  THEN {shape.pre \o s \o shape.post} ELSE {}

RECURSIVE ApplyRules(_, _)
\* Every rule applied to the string s, in order.
ApplyRules(rules, s) ==
  IF rules = <<>> THEN s
  ELSE ApplyRules(Tail(rules), RewriteString(Head(rules), s))

\* The tagged forms of the stem s.
TaggedForms(slots, rules, s) ==
  UNION {{ApplyRules(rules, a \o m) :
            a \in Affixed(slots[k].shape, s),
            m \in VectorMarkers(slots[k].vector)} : k \in 1..Len(slots)}

\* The outputs of an automaton on the string s.
Outputs(fst, s) == {OLabels(p) : p \in {q \in fst : ILabels(q) = s}}

\* A string without its feature markers, and without the boundary too.
Unmarked(f) == SelectSeqP(f, 1..(FirstMarkerLabel - 1))
Surface(f, boundary) == SelectSeqP(f, (1..(FirstMarkerLabel - 1)) \ {boundary})

\* The FeatureVector of the markers of a string.
VectorOfMarkers(cat, f) ==
  LET ms == {MarkerOf(f[i]) : i \in {j \in 1..Len(f) : f[j] >= FirstMarkerLabel}}
  IN FeatureVector(cat, [n \in {m[1] : m \in ms} |->
                           (CHOOSE m \in ms : m[1] = n)[2]])

\* The strings some stem has a path to in stems_to_forms.
FormsNow == {OLabels(p) : p \in fsts.stems_to_forms[self.stems_to_forms]}

\* The stems looked at: "as", "ar" and "a".
ProbeStems == {<<97, 115>>, <<97, 114>>, <<97>>}

Done(t, op) == th[t].op = op /\ th[t].stack = <<>>

\* C1: for every stem of a built Paradigm the outputs of stems_to_forms are
\* exactly, over the slots, the shape applied to the stem, followed by the
\* markers of the slot's vector in canonical order (for a feature the vector
\* leaves open, each of its markers), rewritten by every rule in order; a
\* string that is no stem has no output.
C1_StemsToForms ==
  self.status = "built" =>
    \A s \in ProbeStems :
      Outputs(fsts.stems_to_forms[self.stems_to_forms], s)
        = IF s \in SeqToSet(self.stems)
          THEN TaggedForms(self.slots, RulesOf(self.rules, lists), s)
          ELSE {}

\* Both rules have rewritten a form of a paradigm that has a partial vector.
C1_Witness ==
  /\ self.status = "built"
  /\ Len(RulesOf(self.rules, lists)) = 2
  /\ \E k \in 1..Len(self.slots) : self.slots[k].vector = AnyPl
  /\ <<97, 114, 43, 256, 258>> \in FormsNow

\* What analyze(word) is expected to return.
Analyses(word) ==
  {<<Unmarked(f), VectorOfMarkers(self.category, f)>> :
     f \in {g \in FormsNow : Surface(g, self.boundary) = word}}

\* C2: analyze(w) returns one pair per tagged form of stems_to_forms whose
\* string without boundary and markers is w: the form without its markers,
\* and the FeatureVector of its markers; and no other pair.
C2_Analyze ==
  \A t \in Readers :
    Done(t, "analyze") => th[t].out = Analyses(th[t].arg)

\* analyze has returned two analyses of one word.
C2_Witness ==
  \E t \in Readers : Done(t, "analyze") /\ Cardinality(th[t].out) >= 2

\* What analyze(word) returns on the analyzer as it stands.
AnalyzeNow(word) ==
  Decode(self.category, word, fsts._analyzer[self._analyzer])

\* C3: tag(w) is analyze(w) with the boundary deleted from each string and
\* every FeatureVector kept; so each string of tag(w) is w.
C3_Tag ==
  \A t \in Readers :
    Done(t, "tag") =>
      /\ th[t].out = {<<Surface(p[1], self.boundary), p[2]>> :
                        p \in AnalyzeNow(th[t].arg).out}
      /\ th[t].raised = AnalyzeNow(th[t].arg).raised
      /\ \A p \in th[t].out : p[1] = th[t].arg

\* tag has returned for a word whose analysis holds the boundary.
C3_Witness ==
  \E t \in Readers :
    /\ Done(t, "tag")
    /\ th[t].out # {}
    /\ \E p \in AnalyzeNow(th[t].arg).out : p[1] # th[t].arg


\* The shape of the lemma slot: the last slot with the lemma vector.
LemmaSlotShape ==
  LET ks == {k \in 1..Len(self.slots) :
               FVEq(self.slots[k].vector, declared.lemma_feature_vector)}
  IN self.slots[CHOOSE k \in ks : \A j \in ks : j <= k].shape

\* The lemma forms of the stem s: none if the lemma slot's shape rejects it.
LemmaForms(s) ==
  {Surface(ApplyRules(declared.rules, a \o m), self.boundary) :
     a \in Affixed(LemmaSlotShape, s),
     m \in VectorMarkers(declared.lemma_feature_vector)}

\* The stems that have a form whose surface string is word.
StemsOf(word) ==
  {s \in SeqToSet(self.stems) :
     \E f \in Outputs(fsts.stems_to_forms[self.stems_to_forms], s) :
       Surface(f, self.boundary) = word}

\* The pairs <<lemma, vector>> expected of lemmatize(word).
Lemmas(word) ==
  UNION {{<<l, VectorOfMarkers(self.category, f)>> :
            l \in LemmaForms(s),
            f \in {g \in Outputs(fsts.stems_to_forms[self.stems_to_forms], s) :
                     Surface(g, self.boundary) = word}} :
         s \in SeqToSet(self.stems)}

\* The vectors tag(word) returns.
TagVectors(word) ==
  {VectorOfMarkers(self.category, f) :
     f \in {g \in FormsNow : Surface(g, self.boundary) = word}}

\* C4 as stated: lemmatize(w) returns the pairs of the lemma form of a stem
\* and the vector of a form of that stem whose surface string is w, and its
\* vectors are those of tag(w).
C4_AsStated ==
  \A t \in Readers :
    Done(t, "lemmatize") =>
      /\ th[t].out = Lemmas(th[t].arg)
      /\ {p[2] : p \in th[t].out} = TagVectors(th[t].arg)

\* C4: lemmatize(w) returns the pairs of the lemma form of a stem, by the
\* last slot that has the lemma vector, and the vector of a form of that stem
\* whose surface string is w; a stem the lemma slot's shape rejects gives no
\* pair, so the vectors are among those of tag(w), and are all of them if
\* the shape accepts every stem that has a form with surface string w.
C4_Lemmatize ==
  \A t \in Readers :
    Done(t, "lemmatize") =>
      /\ th[t].out = Lemmas(th[t].arg)
      /\ {p[2] : p \in th[t].out} \subseteq TagVectors(th[t].arg)
      /\ (\A s \in StemsOf(th[t].arg) : LemmaForms(s) # {})
           => {p[2] : p \in th[t].out} = TagVectors(th[t].arg)

\* lemmatize has returned the lemma of one stem, which is not the stem, for
\* a word that is also a form of a stem without a lemma form.
C4_Witness ==
  \E t \in Readers :
    /\ Done(t, "lemmatize")
    /\ \E p \in th[t].out : p[1] \notin SeqToSet(self.stems)
    /\ \E s \in StemsOf(th[t].arg) : LemmaForms(s) = {}

\* The total vectors of the category Noun.
FullVectors ==
  {FeatureVector(Noun, [n \in {"case", "num"} |->
                          IF n = "case" THEN c ELSE m]) :
     c \in SeqToSet(CaseFeature.values), m \in SeqToSet(NumFeature.values)}

\* The words and lemmas looked at: the query words, the surface strings of
\* the forms, and the stems.
ProbeWords ==
  QueryWords \cup {Surface(f, self.boundary) : f \in FormsNow} \cup ProbeStems

LemmatizeNow(word) ==
  Decode(self.category, word, fsts._lemmatizer[self._lemmatizer]).out
InflectNow(lemma, featvec) ==
  Inflect(lemma, featvec, fsts._inflector[self._inflector]).out

\* C5: once the inflector is built, <<l, v>> is in lemmatize(w) exactly if w
\* is in inflect(l, v), for every word w, lemma l and total vector v.
C5_InflectorInverse ==
  self._inflector # NoObject =>
    \A w \in ProbeWords, l \in ProbeWords, v \in FullVectors :
      (<<l, v>> \in LemmatizeNow(w)) <=> (w \in InflectNow(l, v))

\* inflect has returned a word that lemmatize maps back.
C5_Witness ==
  \E t \in Readers :
    /\ Done(t, "inflect")
    /\ \E w \in th[t].out, v \in FullVectors :
         <<th[t].arg[1], v>> \in LemmatizeNow(w)

\* The attribute that caches each view.
Attr ==
  [analyzer |-> "_analyzer", tagger |-> "_tagger",
   lemmatizer |-> "_lemmatizer", inflector |-> "_inflector"]

\* A step that keeps the views memoized.
C8_Step ==
  \A v \in Views :
    /\ made'[v] <= 1
    /\ self.status = "unbuilt"
         => self'[Attr[v]] = NoObject /\ made'[v] = 0
    /\ self[Attr[v]] # NoObject
         => /\ self'[Attr[v]] = self[Attr[v]]
            /\ fsts'[Attr[v]] = fsts[Attr[v]]
            /\ made'[v] = made[v]
    /\ \A t \in Readers :
         (th'[t].op = v /\ th'[t].stack = <<>>)
           => th'[t].ret = Ref(Attr[v], self'[Attr[v]])
                /\ self'[Attr[v]] # NoObject

\* C8: with one reader the constructor builds no view, each view is built
\* at most once, and every access returns the object that is cached, which
\* never changes once it is there.
C8_Memoized == [][C8_Step]_vars

\* All four views were built and the analyzer was read again.
C8_Witness ==
  /\ \A v \in Views : made[v] = 1 /\ self[Attr[v]] # NoObject
  /\ \E t \in Readers : Done(t, "analyzer") /\ th[t].ret.id = self._analyzer


\* The slots of the parent, as they were when the child was built, whose
\* vector is the vector of none of the child's own slots.
ParentSlotsKept ==
  LET Kept(parent_slot) ==
        \A i \in 1..Len(declared.slots) :
          ~FVEq(parent_slot.vector, declared.slots[i].vector)
  IN SelectSeq(declared.parent_slots, Kept)

\* C6: the slot list of a child is its own slots in their order, followed by
\* the parent's slots, in the parent's order, whose vector is the vector of
\* none of the child's own slots.
C6_InheritedSlots ==
  self.status = "built" => self.slots = declared.slots \o ParentSlotsKept

\* C7: a change of the parent's slot list or rule list leaves the child's
\* slot list, rule list, stems_to_forms and views as they were.
C7_ParentFrame ==
  [][mutations' # mutations =>
       /\ self' = self
       /\ RulesOf(self'.rules, lists') = RulesOf(self.rules, lists)
       /\ fsts' = fsts]_vars

\* The lemmatizer of the Paradigm as one reader alone builds it.
LemmatizerAlone ==
  LET alone == Run([S |-> Heap([self EXCEPT !._lemmatizer = NoObject],
                               [NoFsts EXCEPT !.stems_to_forms =
                                                fsts.stems_to_forms],
                               made),
                    T |-> Begin("lemmatizer", <<>>)])
  IN Obj(alone.S, "_lemmatizer")

\* The readers that are inside _make_lemmatizer.
Building ==
  {t \in Readers :
     th[t].stack # <<>>
       /\ Head(th[t].stack) \in {"lemmatizer.flip", "lemmatizer.delete",
                                 "lemmatizer.invert", "lemmatizer.lemma",
                                 "lemmatizer.return"}}

\* C9: the automaton a reader is returned as the lemmatizer is complete, and
\* so is the cached one whenever no reader is building it.
C9_NoHalfBuilt ==
  /\ \A t \in Readers :
       (Done(t, "lemmatizer") /\ th[t].ret.id # NoObject)
         => fsts[th[t].ret.attr][th[t].ret.id] = LemmatizerAlone
  /\ (self._lemmatizer # NoObject /\ Building = {})
       => fsts._lemmatizer[self._lemmatizer] = LemmatizerAlone

\* C10: each view is built once however many readers ask for it, and the
\* readers of a view are returned the same object.
C10_BuiltOnce ==
  \A v \in Views :
    /\ made[v] <= 1
    /\ \A t, u \in Readers :
         (Done(t, v) /\ Done(u, v)) => th[t].ret = th[u].ret


\* ------------------------------------------------- errors of construction
\* The messages of paradigms.Error.
ParadigmsErrors ==
  {"Paradigm category != feature vector category",
   "Paradigm category != parent paradigm category",
   "Paradigm boundary != parent paradigm boundary",
   "Lemma form not found in slots"}

\* The constructor was called.
Attempted == self.status # "unbuilt"

\* The Paradigm under study is a Noun with the boundary "+": its parent has
\* another category or another boundary.
ParentMismatch ==
  /\ parent.exists
  /\ ~CategoryEq(Noun, parent.category) \/ parent.boundary # DefaultBoundary

\* The slots after inheritance whose vector is the lemma vector.
LemmaSlots ==
  LET after == declared.slots \o ParentSlotsKept
  IN {k \in 1..Len(after) :
        FVEq(after[k].vector, declared.lemma_feature_vector)}

\* No object came out of the constructor.
NoObjectResults ==
  /\ self.status = "error"
  /\ fsts = NoFsts
  /\ self.stems_to_forms = NoObject
  /\ \A v \in Views : self[Attr[v]] = NoObject

\* C11: when the parent, if any, matches, the constructor raises "Lemma form
\* not found in slots" exactly if the lemma vector is the vector of no slot
\* of the slot list after inheritance, and then no Paradigm results; with a
\* stem, a lemma vector that only a slot of the parent has gives a Paradigm.
C11_LemmaNotFound ==
  (Attempted /\ ~ParentMismatch) =>
    /\ LemmaSlots = {}
         => /\ self.error = "Lemma form not found in slots"
            /\ self.error \in ParadigmsErrors
            /\ NoObjectResults
    /\ LemmaSlots # {} => self.error # "Lemma form not found in slots"
    /\ (LemmaSlots # {} /\ declared.stems # <<>>) => self.status = "built"

\* The constructor has raised under a parent that was inherited from: no
\* slot of the child or of the parent has the lemma vector.
C11_Witness ==
  /\ Attempted
  /\ parent.exists
  /\ ~ParentMismatch
  /\ LemmaSlots = {}
  /\ self.error = "Lemma form not found in slots"

\* C12: a slot list in which two or more slots have the lemma vector is
\* rejected with an error of the module.
C12_ExactlyOne ==
  (Attempted /\ ~ParentMismatch /\ Cardinality(LemmaSlots) >= 2) =>
    self.status = "error" /\ self.error \in ParadigmsErrors

\* C13: under a parent of another category or another boundary the
\* constructor raises the error of that mismatch, no Paradigm results, and
\* _inherit has taken neither the rules nor a slot of the parent.
C13_ParentMismatch ==
  (Attempted /\ ParentMismatch) =>
    /\ self.error
         = IF ~CategoryEq(Noun, parent.category)
           THEN "Paradigm category != parent paradigm category"
           ELSE "Paradigm boundary != parent paradigm boundary"
    /\ self.error \in ParadigmsErrors
    /\ NoObjectResults
    /\ \A rules \in {None, "C"} :
         LET inh == Inherit(Noun, DefaultBoundary, rules, declared.slots,
                            parent)
         IN inh.error = self.error /\ inh.rules = rules
              /\ inh.slots = declared.slots

\* The constructor has raised under a verb parent that has rules and a slot
\* the child would inherit.
C13_Witness ==
  /\ Attempted
  /\ parent.exists
  /\ ~CategoryEq(Noun, parent.category)
  /\ parent.rules # None
  /\ parent.slots # <<>>
  /\ self.status = "error"

\* C14: a Paradigm without stems is built, and every one of its four
\* accessors returns None.
C14_NoStems ==
  (Attempted /\ declared.stems = <<>> /\ self.error \notin ParadigmsErrors) =>
    /\ self.status = "built"
    /\ \A t \in Readers, v \in Views : Done(t, v) => th[t].ret = NoRef


\* -------------------------------------------------- queries without a path
Queries == {"analyze", "tag", "lemmatize", "inflect"}

\* The words inflect(lemma, featvec) is expected to return: the surface
\* strings of the forms whose lemma is lemma and whose vector is one that
\* featvec allows.
Inflections(lemma, featvec) ==
  {w \in {Surface(f, self.boundary) : f \in FormsNow} :
     \E m \in VectorMarkers(featvec) :
       <<lemma, VectorOfMarkers(self.category, m)>> \in Lemmas(w)}

\* The input of the query the reader t has made has no path through the
\* view it is composed with.
NoPath(t) ==
  CASE th[t].op \in {"analyze", "tag"} -> Analyses(th[t].arg) = {}
    [] th[t].op = "lemmatize" -> Lemmas(th[t].arg) = {}
    [] th[t].op = "inflect" -> Inflections(th[t].arg[1], th[t].arg[2]) = {}

\* C15: each of analyze, tag, lemmatize and inflect raises rewrite.Error
\* exactly if its input has no path through its view, and then returns
\* nothing; otherwise it returns a list that is not empty.
C15_NoPath ==
  \A t \in Readers :
    (th[t].op \in Queries /\ th[t].stack = <<>>) =>
      IF NoPath(t)
      THEN th[t].raised = "rewrite.Error" /\ th[t].out = {}
      ELSE th[t].raised = None /\ th[t].out # {}

\* lemmatize has raised for a word that tag has vectors for.
C15_Witness ==
  \E t \in Readers :
    /\ Done(t, "lemmatize")
    /\ th[t].raised = "rewrite.Error"
    /\ TagVectors(th[t].arg) # {}


\* ----------------------------------------------------- claims on unify
\* The operands of the unify the reader t has called.
Left(t) == th[t].arg[1]
Right(t) == th[t].arg[2]

\* Some feature has one value in a and another in b.
Conflict(a, b) ==
  \E f \in (DOMAIN a.values) \cap (DOMAIN b.values) :
    a.values[f] # b.values[f]

\* C16: a.unify(b) returns None if the categories of a and b differ or if a
\* feature that both assign has different values, and returns a
\* FeatureVector, without raising, in every other case.
C16_UnifyNone ==
  \A t \in Readers :
    Done(t, "unify") =>
      /\ th[t].raised = None
      /\ IF ~CategoryEq(Left(t).category, Right(t).category)
            \/ Conflict(Left(t), Right(t))
         THEN th[t].out = {}
         ELSE Cardinality(th[t].out) = 1

\* unify has returned None for two vectors of one category.
C16_Witness ==
  \E t \in Readers :
    /\ Done(t, "unify")
    /\ CategoryEq(Left(t).category, Right(t).category)
    /\ Conflict(Left(t), Right(t))
    /\ th[t].out = {}

\* C17: the vector a.unify(b) returns has the category of a and assigns
\* exactly the features that a or b assigns, each with the value it has
\* there; a.unify(a) returns a vector equal to a.
C17_UnifyUnion ==
  \A t \in Readers :
    Done(t, "unify") =>
      /\ \A r \in th[t].out :
           /\ r.category = Left(t).category
           /\ DOMAIN r.values
                = (DOMAIN Left(t).values) \cup (DOMAIN Right(t).values)
           /\ \A f \in DOMAIN Left(t).values :
                r.values[f] = Left(t).values[f]
           /\ \A f \in DOMAIN Right(t).values :
                r.values[f] = Right(t).values[f]
      /\ Left(t) = Right(t) => th[t].out = {Left(t)}

\* unify has merged two vectors that assign different features.
C17_Witness ==
  \E t \in Readers :
    /\ Done(t, "unify")
    /\ (DOMAIN Left(t).values) \cap (DOMAIN Right(t).values) = {}
    /\ \E r \in th[t].out : Cardinality(DOMAIN r.values) = 2

\* C18: a.unify(b) and b.unify(a) both return None or return equal vectors.
C18_Commutative ==
  \A t \in Readers :
    Done(t, "unify") =>
      LET back == Unify(Right(t), Left(t)) IN
      /\ th[t].raised = back.raised
      /\ (th[t].out = {}) <=> (back.out = {})
      /\ \A r \in th[t].out, q \in back.out : FVEq(r, q)

\* unify has merged vectors of two equal categories that are not the same
\* category object, and the vectors differ.
C18_Witness ==
  \E t \in Readers :
    /\ Done(t, "unify")
    /\ Left(t).category # Right(t).category
    /\ Left(t).values # Right(t).values
    /\ th[t].out # {}

\* The assignments of b are among those of a.
Below(b, a) ==
  /\ CategoryEq(a.category, b.category)
  /\ (DOMAIN b.values) \subseteq (DOMAIN a.values)
  /\ \A f \in DOMAIN b.values : b.values[f] = a.values[f]

\* C19 as stated: the vector without an assignment can be built, and its
\* unification with any vector v of its category, in either order, returns
\* a vector equal to v.
C19_AsStated ==
  \A t \in Readers :
    (Done(t, "FeatureVector") /\ th[t].arg[2] = <<>>) =>
      /\ th[t].raised = None
      /\ th[t].out # {}
      /\ \A e \in th[t].out :
           \A v \in {w \in Vectors : CategoryEq(w.category, e.category)} :
             /\ \A r \in Unify(v, e).out : FVEq(r, v)
             /\ \A r \in Unify(e, v).out : FVEq(r, v)
             /\ Unify(v, e).out # {} /\ Unify(e, v).out # {}

\* C19: the constructor raises when it is given no assignment, so there is
\* no vector without an assignment; unifying a vector a with a vector whose
\* assignments are among those of a, in either order, returns a vector equal
\* to a.
C19_Identity ==
  \A t \in Readers :
    /\ (Done(t, "FeatureVector") /\ th[t].arg[2] = <<>>)
         => th[t].raised = "No features_and_values provided"
              /\ th[t].out = {}
    /\ (Done(t, "unify") /\ Below(Right(t), Left(t))) =>
         /\ th[t].out # {}
         /\ \A r \in th[t].out : FVEq(r, Left(t))
         /\ Unify(Right(t), Left(t)).out # {}
         /\ \A r \in Unify(Right(t), Left(t)).out : FVEq(r, Left(t))
    /\ \A v \in Vectors : v.values # EmptyDict

\* unify has returned a for a vector b that assigns fewer features than a.
C19_Witness ==
  \E t \in Readers :
    /\ Done(t, "unify")
    /\ Below(Right(t), Left(t))
    /\ Right(t).values # Left(t).values
    /\ \E r \in th[t].out : FVEq(r, Left(t))

\* The messages of features.Error.
FeaturesErrors == {"No features_and_values provided", "Invalid name"}

\* The settings name a feature the category has not, or give a feature a
\* value that is none of its values.
BadSetting(cat, setting) ==
  \A i \in 1..Len(cat.features) :
    cat.features[i].name = setting[1]
      => setting[2] \notin SeqToSet(cat.features[i].values)

\* C20: the FeatureVector constructor raises features.Error, and no vector
\* results, if it is given no assignment, or an assignment whose name is the
\* name of no feature of the category, or one whose value is not a value of
\* its feature.
C20_Raises ==
  \A t \in Readers :
    Done(t, "FeatureVector") =>
      LET cat == th[t].arg[1]
          settings == th[t].arg[2]
      IN (settings = <<>>
            \/ \E i \in 1..Len(settings) : BadSetting(cat, settings[i]))
           => th[t].raised \in FeaturesErrors /\ th[t].out = {}


\* ----------------------------------------- claims on Feature and Category
\* C21: the Feature constructor, given a name and no value, raises
\* features.Error and no Feature results.
C21_FeatureRaises ==
  \A t \in Readers :
    (Done(t, "Feature") /\ th[t].arg[2] = <<>>) =>
      /\ th[t].raised \in FeaturesErrors
                            \cup {"No values provided to Feature object"}
      /\ th[t].out = {}

\* C22: the Category constructor, given no Feature, raises an error and no
\* Category results; given Features it returns a Category.
C22_CategoryRaises ==
  \A t \in Readers :
    Done(t, "Category") =>
      IF th[t].arg = <<>>
      THEN th[t].raised # None /\ th[t].out = {}
      ELSE th[t].raised = None /\ Cardinality(th[t].out) = 1

\* The Category constructor was called without a Feature and has raised.
C22_Witness ==
  \E t \in Readers :
    Done(t, "Category") /\ th[t].arg = <<>> /\ th[t].raised = "ValueError"

\* The sequences of feature markers.
MarkerSeqs == SeqsOf(AllMarkers, 0, MaxFeatures)

\* The sequence m has one legal marker for each of the features fs, the
\* features taken by name.
InNameOrder(m, fs) ==
  /\ Len(m) = Len(fs)
  /\ \A i, j \in 1..Len(m) :
       i < j => NameRank(MarkerOf(m[i])[1]) < NameRank(MarkerOf(m[j])[1])
  /\ \A i \in 1..Len(m) :
       \E k \in 1..Len(fs) :
         /\ fs[k].name = MarkerOf(m[i])[1]
         /\ MarkerOf(m[i])[2] \in SeqToSet(fs[k].values)

\* C23: whatever the order the Features are passed in, the Category holds
\* them sorted by name, it is equal to the Category built from any other
\* order of the same Features, and its acceptor accepts exactly the
\* sequences of one legal marker per feature in the order of the names.
C23_Canonical ==
  \A t \in Readers :
    Done(t, "Category") =>
      \A c \in th[t].out :
        /\ Len(c.features) = Len(th[t].arg)
        /\ SeqToSet(c.features) = SeqToSet(th[t].arg)
        /\ \A i, j \in 1..Len(c.features) :
             i < j => NameRank(c.features[i].name)
                        < NameRank(c.features[j].name)
        /\ \A gs \in {hs \in FeatureLists :
                        SeqToSet(hs) = SeqToSet(th[t].arg)} :
             \A d \in NewCategory(gs).out :
               CategoryEq(c, d) /\ CategoryAcceptor(c) = CategoryAcceptor(d)
        /\ CategoryAcceptor(c)
             = {m \in MarkerSeqs : InNameOrder(m, th[t].arg)}

\* A Category was built from three Features passed in the opposite of the
\* order of their names.
C23_Witness ==
  \E t \in Readers :
    /\ Done(t, "Category")
    /\ Len(th[t].arg) = 3
    /\ \A i, j \in 1..3 :
         i < j => NameRank(th[t].arg[i].name) > NameRank(th[t].arg[j].name)
    /\ th[t].out # {}


\* The markers of m at the positions S, in order, from position i on.
RECURSIVE PickFrom(_, _, _)
PickFrom(m, S, i) ==
  IF i > Len(m) THEN <<>>
  ELSE (IF i \in S THEN <<m[i]>> ELSE <<>>) \o PickFrom(m, S, i + 1)

\* The full sequences of the category cat that keep the markers of input,
\* which are those of some of the features, and have the default marker for
\* every other feature that has a default.
Completions(cat, input) ==
  LET fs == cat.features
      Legal(m) ==
        /\ Len(m) = Len(fs)
        /\ \A i \in 1..Len(fs) :
             /\ MarkerOf(m[i])[1] = fs[i].name
             /\ MarkerOf(m[i])[2] \in SeqToSet(fs[i].values)
  IN {m \in [1..Len(fs) -> AllMarkers] :
        /\ Legal(m)
        /\ \E S \in SUBSET (1..Len(fs)) :
             /\ PickFrom(m, S, 1) = input
             /\ \A i \in (1..Len(fs)) \ S :
                  fs[i].default # None
                    => MarkerOf(m[i])[2] = fs[i].default}

\* C24: the feature filler maps a sequence of legal markers of some of the
\* features, in canonical order, to exactly the full sequences that keep
\* those markers, have the default marker for each missing feature with a
\* default and any legal marker for each missing feature without one; any
\* other sequence has no output.
C24_Filler ==
  \A t \in Readers :
    Done(t, "fill") => th[t].out = Completions(th[t].arg[1], th[t].arg[2])

\* The empty sequence was filled in a category with a feature that has a
\* default and a feature that has none: one completion per value of the
\* latter.
C24_Witness ==
  \E t \in Readers :
    /\ Done(t, "fill")
    /\ th[t].arg[2] = <<>>
    /\ th[t].arg[1].features = <<CaseFeature, NumDefault>>
    /\ Cardinality(th[t].out) = 2


\* C25: the acceptor of a FeatureVector accepts exactly the marker sequences
\* that hold, for each feature of the category in canonical order, the
\* assigned marker if the vector assigns the feature and any legal marker of
\* the feature if it does not.
C25_Acceptor ==
  \A t \in Readers :
    Done(t, "acceptor") => th[t].out = VectorMarkers(th[t].arg[1])

\* The acceptor of a vector that leaves a feature unassigned was read: it
\* accepts more than one sequence.
C25_Witness ==
  \E t \in Readers :
    /\ Done(t, "acceptor")
    /\ \E i \in 1..Len(th[t].arg[1].category.features) :
         th[t].arg[1].category.features[i].name
           \notin DOMAIN th[t].arg[1].values
    /\ Cardinality(th[t].out) >= 2


\* ------------------------------------------------ claims on the relabel pass
\* The copy of stems_to_forms that _make_lemmatizer relabelled: the first
\* object assigned to _lemmatizer, which the later lines replace.
RelabelledCopy == fsts._lemmatizer[1]

\* The automaton fst with every arc whose output label is a feature marker
\* replaced by an arc that has the marker as input label and out as output
\* label, the other arcs as they are.
WithMarkerArcs(fst, cat, out) ==
  {[i \in 1..Len(p) |->
      IF p[i].olabel \in FeatureLabels(cat)
      THEN Arc(p[i].olabel, out[p[i].olabel], p[i].weight)
      ELSE p[i]] :
   p \in fst}

\* The output label of a relabelled arc: the marker still; epsilon.
MarkerOnBoth == [m \in AllMarkers |-> m]
MarkerMoved == [m \in AllMarkers |-> Epsilon]

\* C26 as stated: after the relabel pass every arc of the copy whose output
\* label was a feature marker has the marker as its input label and still as
\* its output label, with the same weight, and every other arc is unchanged.
C26_AsStated ==
  (self.status = "built" /\ self._lemmatizer # NoObject) =>
    RelabelledCopy
      = WithMarkerArcs(fsts.stems_to_forms[self.stems_to_forms],
                       self.category, MarkerOnBoth)

\* C26: after the relabel pass every arc of the copy whose output label was
\* a feature marker has the marker as its input label and epsilon, its former
\* input label, as its output label, with the same weight and at the same
\* place of the same path; every other arc is unchanged, and there are as
\* many paths as before.
C26_Relabel ==
  (self.status = "built" /\ self._lemmatizer # NoObject) =>
    /\ RelabelledCopy
         = WithMarkerArcs(fsts.stems_to_forms[self.stems_to_forms],
                          self.category, MarkerMoved)
    /\ Cardinality(RelabelledCopy)
         = Cardinality(fsts.stems_to_forms[self.stems_to_forms])
    /\ \A t \in Readers : th[t].raised # "AssertionError"

\* The lemmatizer was built from a stems_to_forms that has marker arcs.
C26_Witness ==
  /\ self.status = "built"
  /\ self._lemmatizer # NoObject
  /\ made.lemmatizer = 1
  /\ ToFlip(fsts.stems_to_forms[self.stems_to_forms], self.category) # {}
  /\ ToFlip(RelabelledCopy, self.category) = {}


\* ------------------------------------------------ claims on _parse_lattice
\* The UTF-8 encoding of a code point, and of a string of code points.
Utf8EncodeChar(c) ==
  IF c < 128 THEN <<c>>
  ELSE IF c < 2048 THEN <<192 + (c \div 64), 128 + (c % 64)>>
  ELSE IF c < 65536
  THEN <<224 + (c \div 4096), 128 + ((c \div 64) % 64), 128 + (c % 64)>>
  ELSE <<240 + (c \div 262144), 128 + ((c \div 4096) % 64),
         128 + ((c \div 64) % 64), 128 + (c % 64)>>

RECURSIVE Utf8Encode(_)
Utf8Encode(w) ==
  IF w = <<>> THEN <<>> ELSE Utf8EncodeChar(Head(w)) \o Utf8Encode(Tail(w))

\* The code points that have an encoding: no surrogate, none above U+10FFFF.
IsScalar(c) == c \in 0..1114111 /\ c \notin 55296..57343

\* The strings the words are looked for in: up to two of NUL, "A", "a",
\* "ā" and "€".
ProbeStrings == SeqsOf({0, 65, 97, 257, 8364}, 0, 2)

\* The bytes and the markers of a path: its output labels below 256 that
\* are not epsilon, and its output labels from 256 on.
PathBytes(p) == SelectSeqP(PathOLabels(p), 1..(FirstMarkerLabel - 1))
PathMarkers(p) == SelectSeqP(PathOLabels(p), AllMarkers)

\* The markers make a FeatureVector of the category: there is one, and each
\* is a marker of the category.
MakesVector(cat, ms) ==
  ms # <<>> /\ \A i \in 1..Len(ms) : ms[i] \in FeatureLabels(cat)

\* C27: _parse_lattice yields exactly one pair per path of the lattice; the
\* string of the pair is the UTF-8 decoding of the output labels of the path
\* below 256 that are not epsilon, in order, and its FeatureVector is built
\* from the output labels from 256 on; epsilons add to neither.  It raises
\* only if the bytes of a path are not UTF-8 or its markers make no vector.
C27_Parse ==
  \A t \in Readers :
    Done(t, "_parse_lattice") =>
      LET cat == th[t].arg[1]
          lattice == th[t].arg[2]
      IN IF th[t].raised = None
         THEN /\ {x[1] : x \in th[t].out} = lattice
              /\ Cardinality(th[t].out) = Cardinality(lattice)
              /\ \A x \in th[t].out :
                   /\ \A i \in 1..Len(x[2][1]) : IsScalar(x[2][1][i])
                   /\ Utf8Encode(x[2][1]) = PathBytes(x[1])
                   /\ x[2][2] = VectorOfMarkers(cat, PathMarkers(x[1]))
         ELSE \E p \in lattice :
                \/ /\ th[t].raised = "UnicodeDecodeError"
                   /\ \A w \in ProbeStrings : Utf8Encode(w) # PathBytes(p)
                \/ /\ th[t].raised = "features.Error"
                   /\ ~MakesVector(cat, PathMarkers(p))

\* A lattice of two paths was decoded, one with an epsilon among its output
\* labels and one with a character of two bytes.
C27_Witness ==
  \E t \in Readers :
    /\ Done(t, "_parse_lattice")
    /\ th[t].raised = None
    /\ Cardinality(th[t].out) = 2
    /\ \E x \in th[t].out : \E i \in 1..Len(x[1]) : x[1][i].olabel = Epsilon
    /\ \E x \in th[t].out : x[2][1] = <<257>>


\* ------------------------------------------------ claims on total vectors
\* The names of the features of a category.
FeatureNames(cat) == {cat.features[i].name : i \in 1..Len(cat.features)}

\* The queries that return pairs of a string and a FeatureVector.
Decoded(t) == Done(t, "analyze") \/ Done(t, "tag") \/ Done(t, "lemmatize")

ViewAttrs == {"_analyzer", "_tagger", "_lemmatizer", "_inflector"}

\* C29: a step on a built Paradigm, which builds or queries a view, leaves
\* stems_to_forms, the slot list, the rule list, the stems and the lemma
\* acceptor as they are, and every view that was built before the step still
\* is the same object with the same paths after it; so the relabel pass and
\* the inversions in place act on the copy of the view being built, and the
\* inflector leaves the cached lemmatizer as it is.
C29_Frame ==
  [][self.status = "built" =>
       /\ self'.slots = self.slots
       /\ self'.rules = self.rules
       /\ lists' = lists
       /\ self'.stems = self.stems
       /\ self'.lemma = self.lemma
       /\ self'.stems_to_forms = self.stems_to_forms
       /\ fsts'.stems_to_forms = fsts.stems_to_forms
       /\ \A attr \in ViewAttrs :
            self[attr] # NoObject =>
              /\ self'[attr] = self[attr]
              /\ fsts'[attr][self[attr]] = fsts[attr][self[attr]]]_vars

\* Every view was built, the inflector after the lemmatizer.
C29_Witness ==
  /\ self.status = "built"
  /\ \A attr \in ViewAttrs : self[attr] # NoObject
  /\ \A v \in Views : made[v] = 1


\* ------------------------------------------------ claims on the assertion
\* No label of the string is a feature marker.
NoMarker(x) == \A i \in 1..Len(x) : x[i] < FirstMarkerLabel

\* The stems hold no feature marker, and no rule reads or writes one.
MarkerFree ==
  /\ \A i \in 1..Len(self.stems) : NoMarker(self.stems[i])
  /\ \A i \in 1..Len(RulesOf(self.rules, lists)) :
       LET rule == RulesOf(self.rules, lists)[i]
       IN /\ \A x \in rule.phi : NoMarker(x)
          /\ NoMarker(rule.psi)
          /\ NoMarker(rule.right)

\* C30: in a built Paradigm whose stems hold no feature marker and whose
\* rules neither make nor rewrite one, every arc of stems_to_forms whose
\* output label is a feature marker has epsilon as its input label, and no
\* call has failed on the assertion of the relabel pass.
C30_Assertion ==
  (self.status = "built" /\ MarkerFree) =>
    /\ \A p \in fsts.stems_to_forms[self.stems_to_forms] :
         \A i \in 1..Len(p) :
           p[i].olabel \in FeatureLabels(self.category)
             => p[i].ilabel = Epsilon
    /\ \A t \in Readers : th[t].raised # "AssertionError"

\* lemmatize has returned in a paradigm with two rules: the relabel pass went
\* over the marker arcs of stems_to_forms without failing.
C30_Witness ==
  /\ self.status = "built"
  /\ MarkerFree
  /\ Len(RulesOf(self.rules, lists)) = 2
  /\ \E p \in fsts.stems_to_forms[self.stems_to_forms] :
       \E i \in 1..Len(p) : p[i].olabel \in FeatureLabels(self.category)
  /\ \E t \in Readers :
       Done(t, "lemmatize") /\ th[t].raised = None /\ th[t].out # {}

=============================================================================
